---- MODULE Spec2Model ----
(***************************************************************************)
(* Coordination layer of the environmental monitoring firmware:            *)
(*   - the publish/subscribe event bus, in both generations kept in the    *)
(*     repository (src/core/EventBus.cpp with a 1000 ms lock timeout and   *)
(*     per-handler catch; EnvironmentalMonitoringDevice/src/EventBus.cpp   *)
(*     with an unbounded lock wait and no catch);                          *)
(*   - the venturi nozzle spray sequencer (src/actuators/VenturiNozzle.cpp)*)
(* Tasks are FreeRTOS tasks; every shared read or write is one step.       *)
(***************************************************************************)
EXTENDS Integers, Sequences, FiniteSets, TLC

\* ------------------------------------------------------------------ bounds
MaxPublish == 2      \* top-level publish calls in one run
MaxSubs    == 2      \* subscribe calls in one run
MaxUnsubs  == 1      \* unsubscribe calls in one run

\* ------------------------------------------------------------ event bus
BusTasks   == {"A", "B"}            \* tasks that use the bus
EventTypes == {"T1", "T2"}          \* event-type strings
Handlers   == {"h1", "h2", "h3"}    \* closures passed to subscribe
Impls      == {"core", "legacy"}    \* the two EventBus implementations

None   == "none"
Absent == <<"-">>                   \* subscribers.find(type) == end()

VARIABLES
  impl,         \* which EventBus implementation is linked
  subscribers,  \* std::map<String, std::vector<EventHandler>>
  mutex,        \* holder of the bus mutex, or None
  stack,        \* per task: the bus calls in progress, innermost last
  last,         \* the bus call that returned most recently, and its task
  npub, nsub, nunsub,  \* calls made so far
  halted        \* the firmware aborted (uncaught exception -> terminate)

busVars == <<impl, subscribers, mutex, stack, last, npub, nsub, nunsub, halted>>

VARIABLES
  state,            \* NozzleState
  airState,         \* air solenoid output
  nutrientState,    \* nutrient solenoid output
  taskHandle,       \* handle of the spray task, or NullHandle
  pressurizeDelay, sprayDuration, purgeDelay,   \* stage delays in ticks
  tpc,              \* per spray task: position in sprayTask()
  slept,            \* per spray task: ticks spent in the current vTaskDelay
  events,           \* per spray task: the events it has published
  cpc,              \* the controlling task: position in stopSpray()
  ch,               \* the controlling task: taskHandle as read at line 64
  crashed,          \* vTaskDelete on a freed handle brought the system down
  \* observations, written but never read by the code modelled
  stopFrom,         \* the state stopSpray() was called in, "-" outside it
  ncalls,           \* startSprayCycle() and stopSpray() calls so far
  lastCall,         \* the call that has just returned, with its outcome
  stopped,          \* stopSpray() has returned since the latest start
  clean             \* per spray task: nobody else has written the nozzle

nozzleVars == <<state, airState, nutrientState, taskHandle,
                pressurizeDelay, sprayDuration, purgeDelay, tpc, slept,
                events, cpc, ch, crashed, stopFrom, ncalls, lastCall, stopped,
                clean>>

nozzleObs == <<ncalls, stopped, clean>>

NoOp == [op |-> "none", res |-> "-", snap |-> <<>>, pub |-> <<>>]

VARIABLES
  mgr,              \* which ActuatorManager: "core" (Managers.cpp) or
                    \* "legacy" (actuators/ActuatorManager.cpp)
  actuatorConfigs,  \* config.getActuators(), the descriptor list
  actuators,        \* the registry: the drivers in registration order
  hw,               \* the output hardware: pin levels and LEDC channel 0
  mgrState,         \* BaseManager::state
  mret              \* the begin, addActuator, emergencyStopAll or shutdown
                    \* call that has just returned

mgrVars == <<mgr, actuatorConfigs, actuators, hw, mgrState, mret>>

VARIABLES
  sgen,             \* which sensor polling: "core" (SensorManager of
                    \* Managers.cpp) or "legacy" (SensorTask.cpp)
  sensors,          \* the registered sensors, in registration order
  initialized,      \* per sensor: BaseSensor::initialized (core),
                    \* SHT3xSensor::connected (legacy)
  fault,            \* per sensor: the device fails its transfers or checksums
  lastReadings,     \* SensorManager::lastReadings (core)
  running,          \* SensorTask::running (legacy)
  sensorState,      \* BaseManager::state of the SensorManager (core)
  sensorTaskHandle, \* the handle of the polling task, or NullHandle
  spc,              \* where the polling task is
  si,               \* the place in sensors the polling loop is at
  cpos,             \* where the task that calls begin, stop, shutdown and
                    \* getAllReadings is
  sret              \* the sensor operation or task deletion just made

sensorVars == <<sgen, sensors, initialized, fault, lastReadings, running,
                sensorState, sensorTaskHandle, spc, si, cpos, sret>>

VARIABLES
  now,              \* millis(), an unsigned counter of TimerBits bits
  nozzlePin,        \* the level of the nozzle output: TRUE is HIGH
  sprayActive,      \* VenturiNozzleActuator::sprayActive
  sprayStartTime,   \* VenturiNozzleActuator::sprayStartTime
  sprayDurationMs,  \* VenturiNozzleActuator::sprayDurationMs
  elapsed,          \* the time since the last startSpray while spraying
  vret              \* the startSpray, stopSpray or update call just made

timerVars == <<now, nozzlePin, sprayActive, sprayStartTime, sprayDurationMs,
               elapsed, vret>>

VARIABLES
  bgen,         \* the startup: setup() of main.cpp or DeviceCoordinator
  bstage,       \* where the startup is
  bhw,          \* per configured sensor: enabled, and whether it comes up
  bidx,         \* the sensor descriptor SensorManager::begin is at
  bsensors,     \* the sensors SensorManager::begin has registered
  bact,         \* the actuator manager has been initialized
  btasks,       \* the periodic tasks have been created
  bfail         \* what made the startup stop: "-" while nothing has

bootVars == <<bgen, bstage, bhw, bidx, bsensors, bact, btasks, bfail>>

VARIABLES
  hop,             \* the polling cycle or health check just made
  cycleReadings,   \* SensorManager::lastReadings after the polling cycle
  currentMetrics,  \* SystemMonitor::currentMetrics
  cycleEvents      \* the event types published by the cycle or check

healthVars == <<hop, cycleReadings, currentMetrics, cycleEvents>>

VARIABLES
  cmd,        \* the command the dispatcher is processing
  dpc,        \* where the dispatcher is
  cmdHeld,    \* the bus mutex is held by the task running the dispatcher
  cmdTodo,    \* the publish calls processCommand has still to make
  cmdCalls,   \* the publish calls it has made
  cmdEvents   \* the events of it the bus has dispatched

cmdVars == <<cmd, dpc, cmdHeld, cmdTodo, cmdCalls, cmdEvents>>

VARIABLES
  mclock,               \* millis() as SystemMonitor::update reads it
  lastHealthCheck,      \* SystemMonitor::lastHealthCheck
  healthCheckInterval,  \* SystemMonitor::healthCheckInterval
  sinceCheck,           \* the time since the previous health check
  mcheck                \* the update() just made: did it check

monVars ==
  <<mclock, lastHealthCheck, healthCheckInterval, sinceCheck, mcheck>>

VARIABLES
  killed    \* the bus tasks another task has deleted with vTaskDelete

VARIABLES
  smHandlers,  \* handlers subscribed to "config.sensors.changed"
  smSensors,   \* the size of SensorManager::sensors
  smCalls,     \* begin() and reconfigure() calls made from outside
  smLast       \* the call or event just handled, and the reconfigurations
               \* it has run

smVars == <<smHandlers, smSensors, smCalls, smLast>>

VARIABLES
  relayInvert,   \* RelayActuator::invertLogic
  relayPinHigh,  \* the level of relayPin
  relayInitialized,  \* BaseActuator::initialized
  currentState,  \* BaseActuator::currentState, returned by isActive()
  pulsing,       \* a pulse() is in its delay
  begun,         \* begin() has returned at least once
  rret,          \* the relay call that has just returned
  relayEvents    \* the events the relay has published

relayVars == <<relayInvert, relayPinHigh, relayInitialized, currentState,
               pulsing, begun, rret, relayEvents>>

\* The components added last, as one group.
extraVars == <<monVars, killed, smVars, relayVars>>

\* The variables a step of one component leaves alone.
outsideBus ==
  <<nozzleVars, mgrVars, sensorVars, timerVars, bootVars, healthVars,
    cmdVars, extraVars>>
outsideNozzle ==
  <<busVars, mgrVars, sensorVars, timerVars, bootVars, healthVars,
    cmdVars, extraVars>>
outsideMgr ==
  <<busVars, nozzleVars, sensorVars, timerVars, bootVars, healthVars,
    cmdVars, extraVars>>
outsideSensor ==
  <<busVars, nozzleVars, mgrVars, timerVars, bootVars, healthVars,
    cmdVars, extraVars>>
outsideTimer ==
  <<busVars, nozzleVars, mgrVars, sensorVars, bootVars, healthVars,
    cmdVars, extraVars>>
outsideBoot ==
  <<busVars, nozzleVars, mgrVars, sensorVars, timerVars, healthVars,
    cmdVars, extraVars>>
outsideHealth ==
  <<busVars, nozzleVars, mgrVars, sensorVars, timerVars, bootVars,
    cmdVars, extraVars>>
outsideCmd ==
  <<busVars, nozzleVars, mgrVars, sensorVars, timerVars, bootVars,
    healthVars, extraVars>>
coreVars ==
  <<busVars, nozzleVars, mgrVars, sensorVars, timerVars, bootVars,
    healthVars, cmdVars>>
outsideMon == <<coreVars, killed, smVars, relayVars>>
outsideSm == <<coreVars, killed, monVars, relayVars>>
outsideRelay == <<coreVars, killed, monVars, smVars>>

\* What a subscribed closure does when it is invoked.  h1 returns at once
\* (the relay lambdas of main.cpp), h2 raises, h3 publishes a further event
\* from inside the handler (CommandHandler::onCommandReceived).
HandlerKind(h) ==
  CASE h = "h1" -> "plain"
    [] h = "h2" -> "throws"
    [] h = "h3" -> "chain"

\* The type of the event a chaining handler publishes.
ChainType(h) == "T2"

NoCall == [op |-> "none", type |-> "-", h |-> "-", ph |-> "-", subs |-> <<>>,
           inv |-> <<>>, nret |-> 0, status |-> "-", depth |-> 0,
           raised |-> FALSE, overlap |-> FALSE, ret |-> "-", task |-> "-"]

NewCall(o, T, hh, d) ==
  [NoCall EXCEPT !.op = o, !.type = T, !.h = hh, !.ph = "take",
                 !.status = "active", !.depth = d]

\* Mutation of Subs: the lookup matches the entries of every type.
SubsOfAnyType(T) ==
  (IF subscribers["T1"] = Absent THEN <<>> ELSE subscribers["T1"])
    \o (IF subscribers["T2"] = Absent THEN <<>> ELSE subscribers["T2"])

\* subscribers.find(type): the entry stored under exactly this string
\* (line 53-54 core, 35-36 legacy), empty when there is none.
Subs(T) == IF subscribers[T] = Absent THEN <<>> ELSE subscribers[T]

Top(t) == stack[t][Len(stack[t])]

InCall(t) == stack[t] # <<>>

SetTop(t, f) == [stack EXCEPT ![t] = [@ EXCEPT ![Len(@)] = f]]

\* The call returns to whatever called it: the task body, or the handler
\* that made the call, which then runs on.
Popped(s) ==
  LET r == SubSeq(s, 1, Len(s) - 1)
  IN  IF r = <<>> THEN r ELSE [r EXCEPT ![Len(r)].ph = "inret"]

Return(t, f) ==
  /\ stack' = [stack EXCEPT ![t] = Popped(@)]
  /\ last'  = [f EXCEPT !.task = t]

InitBus ==
  /\ impl \in Impls
  /\ subscribers = [T \in EventTypes |-> Absent]
  /\ mutex = None
  /\ stack = [t \in BusTasks |-> <<>>]
  /\ last = NoCall
  /\ npub = 0 /\ nsub = 0 /\ nunsub = 0
  /\ halted = FALSE

\* A top-level publish of another type is in progress on another task.
Overlaps(t, T, u) ==
  /\ u # t /\ InCall(u)
  /\ stack[u][1].op = "publish" /\ stack[u][1].type # T

\* A task body calls eventBus.publish(event).
PublishCall(t, T) ==
  /\ ~halted /\ ~InCall(t) /\ npub < MaxPublish
  /\ npub' = npub + 1
  /\ stack' = [u \in BusTasks |->
       IF u = t
         THEN <<[NewCall("publish", T, "-", 1) EXCEPT
                   !.overlap = \E v \in BusTasks : Overlaps(t, T, v)]>>
       ELSE IF Overlaps(t, T, u)
         THEN [stack[u] EXCEPT ![1].overlap = TRUE]
       ELSE stack[u]]
  /\ UNCHANGED <<impl, subscribers, mutex, nsub, nunsub, halted>>
  /\ last' = NoCall
  /\ UNCHANGED outsideBus

\* A task body calls eventBus.subscribe(type, handler).
SubscribeCall(t, T, h) ==
  /\ ~halted /\ ~InCall(t) /\ nsub < MaxSubs
  /\ nsub' = nsub + 1
  /\ stack' = [stack EXCEPT ![t] = <<NewCall("subscribe", T, h, 1)>>]
  /\ UNCHANGED <<impl, subscribers, mutex, npub, nunsub, halted>>
  /\ last' = NoCall
  /\ UNCHANGED outsideBus

\* A task body calls eventBus.unsubscribe(type) (core bus only).
UnsubscribeCall(t, T) ==
  /\ ~halted /\ ~InCall(t) /\ nunsub < MaxUnsubs /\ impl = "core"
  /\ nunsub' = nunsub + 1
  /\ stack' = [stack EXCEPT ![t] = <<NewCall("unsubscribe", T, "-", 1)>>]
  /\ UNCHANGED <<impl, subscribers, mutex, npub, nsub, halted>>
  /\ last' = NoCall
  /\ UNCHANGED outsideBus

\* xSemaphoreTake succeeds: the mutex is a plain (non-recursive) FreeRTOS
\* mutex, so it is granted only when nobody holds it, the caller included.
TakeMutex(t) ==
  /\ ~halted /\ InCall(t) /\ Top(t).ph = "take"
  /\ mutex = None
  /\ mutex' = t
  /\ stack' = SetTop(t, [Top(t) EXCEPT !.ph = "locked",
                                       !.subs = Subs(Top(t).type)])
  /\ UNCHANGED <<impl, subscribers, npub, nsub, nunsub, halted>>
  /\ last' = NoCall
  /\ UNCHANGED outsideBus

\* xSemaphoreTake(mutex, pdMS_TO_TICKS(1000)) gives up: the mutex was held
\* for the whole wait.  publish logs and returns, subscribe and unsubscribe
\* return false.  The legacy bus waits with portMAX_DELAY and never gives up.
TakeTimeoutEnabled(t) ==
  /\ impl = "core"
  /\ mutex # None

TakeTimeout(t) ==
  /\ ~halted /\ InCall(t) /\ Top(t).ph = "take"
  /\ TakeTimeoutEnabled(t)
  /\ Return(t, [Top(t) EXCEPT !.status = "timeout", !.ph = "-",
                  !.subs = Subs(Top(t).type),
                  !.ret = IF Top(t).op = "publish" THEN "void" ELSE "false"])
  /\ UNCHANGED <<impl, subscribers, mutex, npub, nsub, nunsub, halted>>
  /\ UNCHANGED outsideBus

\* Line 27-28 (core), 17-18 (legacy): push_back under the lock, then give.
\* The legacy subscribe returns here; the core one still prints.
SubscribePush(t) ==
  /\ ~halted /\ InCall(t) /\ Top(t).op = "subscribe" /\ Top(t).ph = "locked"
  /\ subscribers' = [subscribers EXCEPT
                       ![Top(t).type] = Append(Subs(Top(t).type), Top(t).h)]
  /\ mutex' = None
  /\ IF impl = "core"
       THEN /\ stack' = SetTop(t, [Top(t) EXCEPT !.ph = "print"])
            /\ last' = NoCall
       ELSE Return(t, [Top(t) EXCEPT !.status = "done", !.ph = "-",
                                     !.ret = "void"])
  /\ UNCHANGED <<impl, npub, nsub, nunsub, halted>>
  /\ UNCHANGED outsideBus

\* Line 29-31 (core): subscribers[eventType].size() is read after the give;
\* operator[] inserts an empty entry when the type has been erased meanwhile.
SubscribePrint(t) ==
  /\ ~halted /\ InCall(t) /\ Top(t).op = "subscribe" /\ Top(t).ph = "print"
  /\ subscribers' = [subscribers EXCEPT
                       ![Top(t).type] = Subs(Top(t).type)]
  /\ Return(t, [Top(t) EXCEPT !.status = "done", !.ph = "-", !.ret = "true"])
  /\ UNCHANGED <<impl, mutex, npub, nsub, nunsub, halted>>
  /\ UNCHANGED outsideBus

\* Mutation of Erased: the entries of all types are erased.
ErasedAll(tab, T) == [X \in EventTypes |-> Absent]

\* subscribers.erase(it), line 39-41: the entry of the type goes, whole.
Erased(tab, T) == [tab EXCEPT ![T] = Absent]

\* getSubscriberCount, line 79-89: the size of the entry, 0 without one.
SubscriberCount(tab, T) == IF tab[T] = Absent THEN 0 ELSE Len(tab[T])

\* Line 39-48 (core): erase the whole entry when present.
UnsubscribeErase(t) ==
  /\ ~halted /\ InCall(t) /\ Top(t).op = "unsubscribe" /\ Top(t).ph = "locked"
  /\ subscribers' = IF subscribers[Top(t).type] = Absent
                      THEN subscribers
                      ELSE Erased(subscribers, Top(t).type)
  /\ mutex' = None
  /\ Return(t, [Top(t) EXCEPT !.status = "done", !.ph = "-",
        !.ret = IF subscribers[Top(t).type] = Absent THEN "false" ELSE "true"])
  /\ UNCHANGED <<impl, npub, nsub, nunsub, halted>>
  /\ UNCHANGED outsideBus

\* Mutation of DispatchOrder: the entry is walked back to front.
DispatchOrderReversed(T) ==
  [i \in 1..Len(Subs(T)) |-> Subs(T)[Len(Subs(T)) + 1 - i]]

\* for (const auto& handler : it->second): the vector is walked front to
\* back, i.e. in push_back (subscription) order.
DispatchOrder(T) == Subs(T)

\* The dispatch loop calls the next handler of the entry (line 56-58 core,
\* 37-38 legacy), on the publishing task, with the mutex held.
InvokeHandler(t) ==
  /\ ~halted /\ InCall(t) /\ Top(t).op = "publish" /\ Top(t).ph = "locked"
  /\ Top(t).nret < Len(Subs(Top(t).type))
  /\ stack' = SetTop(t, [Top(t) EXCEPT
                !.ph = "in",
                !.inv = Append(@, DispatchOrder(Top(t).type)[Top(t).nret + 1])])
  /\ UNCHANGED <<impl, subscribers, mutex, npub, nsub, nunsub, halted>>
  /\ last' = NoCall
  /\ UNCHANGED outsideBus

CurrentHandler(t) == Top(t).inv[Len(Top(t).inv)]

\* A handler that does no bus call returns; a chaining handler returns once
\* its own publish has returned.
HandlerReturn(t) ==
  /\ ~halted /\ InCall(t) /\ Top(t).op = "publish"
  /\ \/ Top(t).ph = "in" /\ HandlerKind(CurrentHandler(t)) = "plain"
     \/ Top(t).ph = "inret"
  /\ stack' = SetTop(t, [Top(t) EXCEPT !.ph = "locked", !.nret = @ + 1])
  /\ UNCHANGED <<impl, subscribers, mutex, npub, nsub, nunsub, halted>>
  /\ last' = NoCall
  /\ UNCHANGED outsideBus

\* A chaining handler calls eventBus.publish from inside the dispatch.
HandlerPublish(t) ==
  /\ ~halted /\ InCall(t) /\ Top(t).op = "publish" /\ Top(t).ph = "in"
  /\ HandlerKind(CurrentHandler(t)) = "chain"
  /\ stack' = [stack EXCEPT ![t] =
        Append(@, NewCall("publish", ChainType(CurrentHandler(t)), "-",
                          Len(@) + 1))]
  /\ UNCHANGED <<impl, subscribers, mutex, npub, nsub, nunsub, halted>>
  /\ last' = NoCall
  /\ UNCHANGED outsideBus

\* The exception of a raising handler is caught inside the loop.
CatchesHandlerExceptions(i) == i = "core"

\* A handler raises.  The core loop catches, logs and goes on with the next
\* handler.  The legacy loop has no try block: the exception leaves
\* notifySubscribers and publish without the give, nothing up the task's
\* stack catches it, and terminate() aborts the firmware.
HandlerThrow(t) ==
  /\ ~halted /\ InCall(t) /\ Top(t).op = "publish" /\ Top(t).ph = "in"
  /\ HandlerKind(CurrentHandler(t)) = "throws"
  /\ IF CatchesHandlerExceptions(impl)
       THEN /\ stack' = SetTop(t, [Top(t) EXCEPT !.ph = "locked",
                                      !.nret = @ + 1, !.raised = TRUE])
            /\ last' = NoCall
            /\ UNCHANGED halted
       ELSE /\ stack' = [stack EXCEPT ![t] = <<>>]
            /\ last' = [Top(t) EXCEPT !.status = "aborted", !.ph = "-",
                                        !.raised = TRUE, !.task = t]
            /\ halted' = TRUE
  /\ UNCHANGED <<impl, subscribers, mutex, npub, nsub, nunsub>>
  /\ UNCHANGED outsideBus

\* End of the loop (or no entry for the type): give the mutex and return.
PublishReturn(t) ==
  /\ ~halted /\ InCall(t) /\ Top(t).op = "publish" /\ Top(t).ph = "locked"
  /\ Top(t).nret >= Len(Subs(Top(t).type))
  /\ mutex' = None
  /\ Return(t, [Top(t) EXCEPT !.status = "done", !.ph = "-", !.ret = "void"])
  /\ UNCHANGED <<impl, subscribers, npub, nsub, nunsub, halted>>
  /\ UNCHANGED outsideBus

\* Another task deletes bus task t with vTaskDelete(handle), as stopSpray
\* (VenturiNozzle.cpp line 64-67), SensorTask::stop (line 46-49) and
\* SensorManager::shutdown (Managers.cpp line 68-71) do, wherever t is:
\* t runs no further; a mutex it holds is not given.
DeleteTask(t) ==
  /\ ~halted /\ t \notin killed
  /\ killed' = killed \cup {t}
  /\ stack' = [stack EXCEPT ![t] = <<>>]
  /\ last' = NoCall
  /\ UNCHANGED <<impl, subscribers, mutex, npub, nsub, nunsub, halted>>
  /\ UNCHANGED <<nozzleVars, mgrVars, sensorVars, timerVars, bootVars,
                 healthVars, cmdVars, monVars, smVars, relayVars>>

\* ------------------------------------------------------- venturi nozzle
MaxTasks == 2        \* spray tasks created in one run
MaxCalls == 3        \* startSprayCycle() and stopSpray() calls in one run
MaxCycle == 3        \* the three stage delays together, in ticks

SprayTasks == 1..MaxTasks
NullHandle == 0                     \* taskHandle == nullptr

AirOpen       == "actuator.nozzle.air.open"
NutrientOpen  == "actuator.nozzle.nutrient.open"
NutrientClose == "actuator.nozzle.nutrient.close"
AirClose      == "actuator.nozzle.air.close"

Live(t) == tpc[t] \notin {"none", "done", "deleted"}

LiveTasks == {t \in SprayTasks : Live(t)}

Created == {t \in SprayTasks : tpc[t] # "none"}

Snapshot == <<state, airState, nutrientState>>

\* Constructor (line 3-7) followed by begin() (line 15-25) and the three
\* setters (line 142-152).
NozzleReady(p, s, g) ==
  /\ state = "IDLE" /\ airState = FALSE /\ nutrientState = FALSE
  /\ taskHandle = NullHandle
  /\ pressurizeDelay = p /\ sprayDuration = s /\ purgeDelay = g
  /\ tpc = [t \in SprayTasks |-> "none"]
  /\ slept = [t \in SprayTasks |-> 0]
  /\ events = [t \in SprayTasks |-> <<>>]
  /\ cpc = "idle" /\ ch = NullHandle /\ crashed = FALSE /\ stopFrom = "-"
  /\ ncalls = 0 /\ lastCall = NoOp /\ stopped = FALSE
  /\ clean = [t \in SprayTasks |-> TRUE]

InitNozzle ==
  \E p \in 1..MaxCycle, s \in 1..MaxCycle, g \in 1..MaxCycle :
     p + s + g <= MaxCycle /\ NozzleReady(p, s, g)

\* Mutation of CanStart: the guard of line 44 is missing.
CanStartAlways(s) == TRUE

\* Line 44: a cycle is started only from IDLE.
CanStart(s) == s = "IDLE"

\* startSprayCycle() passes the guard and creates the spray task (line
\* 53-60); xTaskCreate stores the new handle in taskHandle.
StartSprayCycle ==
  /\ ~crashed /\ cpc = "idle" /\ ncalls < MaxCalls
  /\ CanStart(state)
  /\ Cardinality(Created) < MaxTasks
  /\ LET new == Cardinality(Created) + 1 IN
       /\ tpc' = [tpc EXCEPT ![new] = "s84"]
       /\ taskHandle' = new
  /\ ncalls' = ncalls + 1 /\ stopped' = FALSE
  /\ lastCall' = [NoOp EXCEPT !.op = "start", !.res = "created"]
  /\ UNCHANGED <<state, airState, nutrientState, pressurizeDelay,
                 sprayDuration, purgeDelay, slept, events, cpc, ch, crashed,
                 clean>>
  /\ UNCHANGED <<stopFrom, outsideNozzle>>

\* startSprayCycle() on a nozzle that is not IDLE: logs and returns (line
\* 44-47).
StartRejected ==
  /\ ~crashed /\ cpc = "idle" /\ ncalls < MaxCalls
  /\ ~CanStart(state)
  /\ ncalls' = ncalls + 1 /\ stopped' = FALSE
  /\ lastCall' = [NoOp EXCEPT !.op = "start", !.res = state]
  /\ UNCHANGED <<state, airState, nutrientState, taskHandle, pressurizeDelay,
                 sprayDuration, purgeDelay, tpc, slept, events, cpc, ch,
                 crashed, clean>>
  /\ UNCHANGED <<stopFrom, outsideNozzle>>

\* stopSpray(), line 64: the test of taskHandle.
StopTest ==
  /\ ~crashed /\ cpc = "idle" /\ ncalls < MaxCalls
  /\ ncalls' = ncalls + 1
  /\ ch' = taskHandle
  /\ stopFrom' = state
  /\ cpc' = IF taskHandle = NullHandle THEN "s70" ELSE "s65"
  /\ clean' = [t \in SprayTasks |-> clean[t] /\ ~Live(t)]
  /\ UNCHANGED <<state, airState, nutrientState, taskHandle, pressurizeDelay,
                 sprayDuration, purgeDelay, tpc, slept, events, crashed,
                 stopped>>
  /\ lastCall' = NoOp
  /\ UNCHANGED outsideNozzle

\* stopSpray(), line 65-66: vTaskDelete(taskHandle); taskHandle = nullptr.
\* taskHandle is a plain field written by the spray task as well, so the
\* argument is either the value tested at line 64 or a fresh read.  A null
\* argument deletes the calling task; a handle whose task has already
\* deleted itself is a freed control block.  What a deleted task held on
\* its stack goes with it.
StopDelete ==
  /\ ~crashed /\ cpc = "s65"
  /\ \E x \in {ch, taskHandle} :
       \/ /\ x = NullHandle
          /\ cpc' = "deleted"
          /\ UNCHANGED <<tpc, slept, events, clean, taskHandle, crashed>>
       \/ /\ x # NullHandle /\ Live(x)
          /\ tpc' = [tpc EXCEPT ![x] = "deleted"]
          /\ slept' = [slept EXCEPT ![x] = 0]
          /\ events' = [events EXCEPT ![x] = <<>>]
          /\ clean' = [clean EXCEPT ![x] = FALSE]
          /\ taskHandle' = NullHandle
          /\ cpc' = "s70"
          /\ UNCHANGED crashed
       \/ /\ x # NullHandle /\ ~Live(x)
          /\ \/ /\ crashed' = TRUE
                /\ UNCHANGED <<cpc, taskHandle>>
             \/ /\ taskHandle' = NullHandle
                /\ cpc' = "s70"
                /\ UNCHANGED crashed
          /\ UNCHANGED <<tpc, slept, events, clean>>
  /\ ch' = NullHandle
  /\ UNCHANGED <<state, airState, nutrientState, pressurizeDelay,
                 sprayDuration, purgeDelay, ncalls, stopped>>
  /\ lastCall' = NoOp
  /\ UNCHANGED <<stopFrom, outsideNozzle>>

\* stopSpray(), line 70: setAirSolenoid(false).
StopCloseAir ==
  /\ ~crashed /\ cpc = "s70"
  /\ airState' = FALSE
  /\ cpc' = "s71"
  /\ clean' = [t \in SprayTasks |-> clean[t] /\ ~Live(t)]
  /\ UNCHANGED <<state, nutrientState, taskHandle, pressurizeDelay,
                 sprayDuration, purgeDelay, tpc, slept, events, ch, crashed,
                 ncalls, stopped>>
  /\ lastCall' = NoOp
  /\ UNCHANGED <<stopFrom, outsideNozzle>>

\* stopSpray(), line 71: setNutrientSolenoid(false).
StopCloseNutrient ==
  /\ ~crashed /\ cpc = "s71"
  /\ nutrientState' = FALSE
  /\ cpc' = "s72"
  /\ clean' = [t \in SprayTasks |-> clean[t] /\ ~Live(t)]
  /\ UNCHANGED <<state, airState, taskHandle, pressurizeDelay, sprayDuration,
                 purgeDelay, tpc, slept, events, ch, crashed, ncalls,
                 stopped>>
  /\ lastCall' = NoOp
  /\ UNCHANGED <<stopFrom, outsideNozzle>>

\* stopSpray(), line 72-75: state = IDLE, log, return.  No event has been
\* published anywhere in the call.
StopSetIdle ==
  /\ ~crashed /\ cpc = "s72"
  /\ state' = "IDLE"
  /\ cpc' = "idle"
  /\ clean' = [t \in SprayTasks |-> clean[t] /\ ~Live(t)]
  /\ stopped' = TRUE
  /\ lastCall' = [NoOp EXCEPT !.op = "stop", !.res = stopFrom,
                              !.snap = <<"IDLE", airState, nutrientState>>]
  /\ stopFrom' = "-"
  /\ UNCHANGED <<airState, nutrientState, taskHandle, pressurizeDelay,
                 sprayDuration, purgeDelay, tpc, slept, events, ch, crashed,
                 ncalls>>
  /\ UNCHANGED outsideNozzle

\* A write of the nozzle's state or outputs by spray task t is seen by every
\* other spray task that is still running.
Disturbs(t) == [u \in SprayTasks |-> clean[u] /\ (u = t \/ ~Live(u))]

\* The output an event of the spray task announces, as it is when the event
\* is handed to the subscribers.
AnnouncedPin(name) ==
  IF name \in {AirOpen, AirClose} THEN airState ELSE nutrientState

\* eventBus.publish(name, getName(), ...) by the spray task; the handlers
\* run inside the call, on the spray task.
Published(t, name) ==
  [events EXCEPT ![t] = Append(@, [name |-> name, waited |-> slept[t],
                                   pin |-> AnnouncedPin(name)])]

\* Mutation of DelayElapsed: vTaskDelay returns at once.
DelayElapsedAtOnce(t, d) == TRUE

\* vTaskDelay(pdMS_TO_TICKS(d)) returns once d ticks have passed.
DelayElapsed(t, d) == slept[t] >= d

\* sprayTask(), line 84: state = PRESSURIZING.
SprayPressurizing(t) ==
  /\ ~crashed /\ tpc[t] = "s84"
  /\ state' = "PRESSURIZING"
  /\ clean' = Disturbs(t)
  /\ tpc' = [tpc EXCEPT ![t] = "s85"]
  /\ UNCHANGED <<airState, nutrientState, taskHandle, pressurizeDelay,
                 sprayDuration, purgeDelay, slept, events, cpc, ch, crashed,
                 ncalls, stopped>>
  /\ lastCall' = NoOp
  /\ UNCHANGED <<stopFrom, outsideNozzle>>

\* sprayTask(), line 85-86: setAirSolenoid(true).
SprayOpenAir(t) ==
  /\ ~crashed /\ tpc[t] = "s85"
  /\ airState' = TRUE
  /\ clean' = Disturbs(t)
  /\ tpc' = [tpc EXCEPT ![t] = "s88"]
  /\ UNCHANGED <<state, nutrientState, taskHandle, pressurizeDelay,
                 sprayDuration, purgeDelay, slept, events, cpc, ch, crashed,
                 ncalls, stopped>>
  /\ lastCall' = NoOp
  /\ UNCHANGED <<stopFrom, outsideNozzle>>

\* sprayTask(), line 88-92: publish air.open, then vTaskDelay.
SprayPublishAirOpen(t) ==
  /\ ~crashed /\ tpc[t] = "s88"
  /\ events' = Published(t, AirOpen)
  /\ slept' = [slept EXCEPT ![t] = 0]
  /\ tpc' = [tpc EXCEPT ![t] = "d92"]
  /\ UNCHANGED <<state, airState, nutrientState, taskHandle, pressurizeDelay,
                 sprayDuration, purgeDelay, cpc, ch, crashed, ncalls,
                 stopped, clean>>
  /\ lastCall' = NoOp
  /\ UNCHANGED <<stopFrom, outsideNozzle>>

\* sprayTask(), line 92-95: the delay is over, state = SPRAYING.
SpraySpraying(t) ==
  /\ ~crashed /\ tpc[t] = "d92"
  /\ DelayElapsed(t, pressurizeDelay)
  /\ state' = "SPRAYING"
  /\ clean' = Disturbs(t)
  /\ tpc' = [tpc EXCEPT ![t] = "s96"]
  /\ UNCHANGED <<airState, nutrientState, taskHandle, pressurizeDelay,
                 sprayDuration, purgeDelay, slept, events, cpc, ch, crashed,
                 ncalls, stopped>>
  /\ lastCall' = NoOp
  /\ UNCHANGED <<stopFrom, outsideNozzle>>

\* sprayTask(), line 96: setNutrientSolenoid(true).
SprayOpenNutrient(t) ==
  /\ ~crashed /\ tpc[t] = "s96"
  /\ nutrientState' = TRUE
  /\ clean' = Disturbs(t)
  /\ tpc' = [tpc EXCEPT ![t] = "s98"]
  /\ UNCHANGED <<state, airState, taskHandle, pressurizeDelay, sprayDuration,
                 purgeDelay, slept, events, cpc, ch, crashed, ncalls,
                 stopped>>
  /\ lastCall' = NoOp
  /\ UNCHANGED <<stopFrom, outsideNozzle>>

\* sprayTask(), line 98-102: publish nutrient.open, then vTaskDelay.
SprayPublishNutrientOpen(t) ==
  /\ ~crashed /\ tpc[t] = "s98"
  /\ events' = Published(t, NutrientOpen)
  /\ slept' = [slept EXCEPT ![t] = 0]
  /\ tpc' = [tpc EXCEPT ![t] = "d102"]
  /\ UNCHANGED <<state, airState, nutrientState, taskHandle, pressurizeDelay,
                 sprayDuration, purgeDelay, cpc, ch, crashed, ncalls,
                 stopped, clean>>
  /\ lastCall' = NoOp
  /\ UNCHANGED <<stopFrom, outsideNozzle>>

\* sprayTask(), line 102-105: the delay is over, setNutrientSolenoid(false).
SprayCloseNutrient(t) ==
  /\ ~crashed /\ tpc[t] = "d102"
  /\ DelayElapsed(t, sprayDuration)
  /\ nutrientState' = FALSE
  /\ clean' = Disturbs(t)
  /\ tpc' = [tpc EXCEPT ![t] = "s107"]
  /\ UNCHANGED <<state, airState, taskHandle, pressurizeDelay, sprayDuration,
                 purgeDelay, slept, events, cpc, ch, crashed, ncalls,
                 stopped>>
  /\ lastCall' = NoOp
  /\ UNCHANGED <<stopFrom, outsideNozzle>>

\* sprayTask(), line 107: publish nutrient.close.
SprayPublishNutrientClose(t) ==
  /\ ~crashed /\ tpc[t] = "s107"
  /\ events' = Published(t, NutrientClose)
  /\ tpc' = [tpc EXCEPT ![t] = "s111"]
  /\ UNCHANGED <<state, airState, nutrientState, taskHandle, pressurizeDelay,
                 sprayDuration, purgeDelay, slept, cpc, ch, crashed, ncalls,
                 stopped, clean>>
  /\ lastCall' = NoOp
  /\ UNCHANGED <<stopFrom, outsideNozzle>>

\* sprayTask(), line 111-112: state = PURGING, then vTaskDelay.
SprayPurging(t) ==
  /\ ~crashed /\ tpc[t] = "s111"
  /\ state' = "PURGING"
  /\ clean' = Disturbs(t)
  /\ slept' = [slept EXCEPT ![t] = 0]
  /\ tpc' = [tpc EXCEPT ![t] = "d112"]
  /\ UNCHANGED <<airState, nutrientState, taskHandle, pressurizeDelay,
                 sprayDuration, purgeDelay, events, cpc, ch, crashed, ncalls,
                 stopped>>
  /\ lastCall' = NoOp
  /\ UNCHANGED <<stopFrom, outsideNozzle>>

\* sprayTask(), line 112-115: the delay is over, setAirSolenoid(false).
SprayCloseAir(t) ==
  /\ ~crashed /\ tpc[t] = "d112"
  /\ DelayElapsed(t, purgeDelay)
  /\ airState' = FALSE
  /\ clean' = Disturbs(t)
  /\ tpc' = [tpc EXCEPT ![t] = "s116"]
  /\ UNCHANGED <<state, nutrientState, taskHandle, pressurizeDelay,
                 sprayDuration, purgeDelay, slept, events, cpc, ch, crashed,
                 ncalls, stopped>>
  /\ lastCall' = NoOp
  /\ UNCHANGED <<stopFrom, outsideNozzle>>

\* sprayTask(), line 116: state = IDLE.
SprayIdle(t) ==
  /\ ~crashed /\ tpc[t] = "s116"
  /\ state' = "IDLE"
  /\ clean' = Disturbs(t)
  /\ tpc' = [tpc EXCEPT ![t] = "s118"]
  /\ UNCHANGED <<airState, nutrientState, taskHandle, pressurizeDelay,
                 sprayDuration, purgeDelay, slept, events, cpc, ch, crashed,
                 ncalls, stopped>>
  /\ lastCall' = NoOp
  /\ UNCHANGED <<stopFrom, outsideNozzle>>

\* sprayTask(), line 118-121: publish air.close.
SprayPublishAirClose(t) ==
  /\ ~crashed /\ tpc[t] = "s118"
  /\ events' = Published(t, AirClose)
  /\ tpc' = [tpc EXCEPT ![t] = "s124"]
  /\ UNCHANGED <<state, airState, nutrientState, taskHandle, pressurizeDelay,
                 sprayDuration, purgeDelay, slept, cpc, ch, crashed, ncalls,
                 stopped, clean>>
  /\ lastCall' = NoOp
  /\ UNCHANGED <<stopFrom, outsideNozzle>>

\* sprayTask(), line 124: taskHandle = nullptr.
SprayClearHandle(t) ==
  /\ ~crashed /\ tpc[t] = "s124"
  /\ taskHandle' = NullHandle
  /\ tpc' = [tpc EXCEPT ![t] = "s125"]
  /\ UNCHANGED <<state, airState, nutrientState, pressurizeDelay,
                 sprayDuration, purgeDelay, slept, events, cpc, ch, crashed,
                 ncalls, stopped, clean>>
  /\ lastCall' = NoOp
  /\ UNCHANGED <<stopFrom, outsideNozzle>>

\* sprayTask(), line 125: vTaskDelete(nullptr), the task is gone.
SprayExit(t) ==
  /\ ~crashed /\ tpc[t] = "s125"
  /\ tpc' = [tpc EXCEPT ![t] = "done"]
  /\ UNCHANGED <<state, airState, nutrientState, taskHandle, pressurizeDelay,
                 sprayDuration, purgeDelay, slept, events, cpc, ch, crashed,
                 ncalls, stopped, clean>>
  /\ lastCall' = NoOp
  /\ UNCHANGED <<stopFrom, outsideNozzle>>

\* The delay a spray task is sitting in, 0 when it is not in vTaskDelay.
CurrentDelay(t) ==
  CASE tpc[t] = "d92"  -> pressurizeDelay
    [] tpc[t] = "d102" -> sprayDuration
    [] tpc[t] = "d112" -> purgeDelay
    [] OTHER -> 0

\* One tick of the FreeRTOS tick counter.
Tick ==
  /\ ~crashed
  /\ \E t \in SprayTasks : slept[t] < CurrentDelay(t)
  /\ slept' = [t \in SprayTasks |->
                 IF slept[t] < CurrentDelay(t) THEN slept[t] + 1 ELSE slept[t]]
  /\ UNCHANGED <<state, airState, nutrientState, taskHandle, pressurizeDelay,
                 sprayDuration, purgeDelay, tpc, events, cpc, ch, crashed,
                 ncalls, stopped, clean>>
  /\ lastCall' = NoOp
  /\ UNCHANGED <<stopFrom, outsideNozzle>>

\* ----------------------------------------------------- actuator manager
MaxConfigs == 2      \* descriptors in the actuator configuration
MaxActuators == 2    \* drivers in the actuator registry

Pins == 1..MaxConfigs

\* The names the descriptors of the configuration carry: the descriptor at
\* place i is named i and drives pin i, so that within the configuration no
\* two descriptors share a name or a pin.
Names == Pins

\* ActuatorConfig (BaseClasses.h line 48-58): the fields the managers and
\* the drivers read, for the descriptor at place i.
Descriptors(i) ==
  [name : {i}, type : {"Relay"}, enabled : BOOLEAN, invertLogic : BOOLEAN]
  \cup [name : {i}, type : {"PWMOutput", "VenturiNozzle", "Unknown"},
        enabled : BOOLEAN, invertLogic : {FALSE}]

\* The configurations of n descriptors.
Configurations(n) ==
  {c \in [1..n -> UNION {Descriptors(i) : i \in 1..n}] :
     \A i \in 1..n : c[i].name = i}

\* EnvironmentalDevice::createActuator (core) and
\* ActuatorManager::createActuator (legacy): the types a driver exists for.
KnownType(m, type) ==
  IF m = "core" THEN type \in {"Relay", "PWMOutput", "VenturiNozzle"}
  ELSE type \in {"Relay", "VenturiNozzle"}

\* Mutation of InactiveLevel: LOW whatever the logic.
InactiveLevelLow(invert) == FALSE

\* The level RelayActuator writes for "inactive": HIGH with inverted logic.
InactiveLevel(invert) == invert

\* The duty cycle PWMActuator::activate sets, in percent.
ActivateDuty == 50

\* setDutyCycle, line 436: the LEDC value of a duty cycle at 8 bit.
PwmValue(duty) == (duty * 255) \div 100

\* An output is energized: a relay pin at its active level (LOW for a relay
\* wired with inverted logic), a nozzle pin HIGH, a pin attached to LEDC
\* channel 0 while the channel's duty is not 0.
Energized(h, i) ==
  LET c == actuatorConfigs[i] IN
    CASE c.type = "Relay" -> h.pinHigh[i] # c.invertLogic
      [] c.type = "PWMOutput" -> i \in h.attached /\ h.ledc > 0
      [] OTHER -> h.pinHigh[i]

\* The hardware after reset.
HwReset == [pinHigh |-> [i \in Pins |-> FALSE], attached |-> {}, ledc |-> 0]

\* A driver as constructed (BaseActuator, line 115-116) and initialized by
\* its begin().
NewActuator(i) ==
  [cfg |-> i, initialized |-> TRUE, currentState |-> FALSE,
   sprayActive |-> FALSE]

\* RelayActuator::begin, PWMActuator::begin, VenturiNozzleActuator::begin:
\* the hardware after the begin() of the driver of descriptor i.
DriverBegin(h, i) ==
  LET c == actuatorConfigs[i] IN
    CASE c.type = "Relay" ->
           [h EXCEPT !.pinHigh[i] = InactiveLevel(c.invertLogic)]
      [] c.type = "PWMOutput" ->
           [h EXCEPT !.attached = @ \cup {i}, !.ledc = 0]
      [] OTHER -> [h EXCEPT !.pinHigh[i] = FALSE]

\* addActuator (Managers.cpp line 266-281) on the registry and hardware st,
\* with ok the result of the driver's begin(): create, begin, push_back.
AddActuatorTo(st, i, ok) ==
  IF KnownType(mgr, actuatorConfigs[i].type) /\ ok
    THEN [acts |-> Append(st.acts, NewActuator(i)),
          hw |-> DriverBegin(st.hw, i), res |-> TRUE]
    ELSE [st EXCEPT !.res = FALSE]

\* Mutation of BeginLoop: the loop ends at the first descriptor that cannot
\* be added.
RECURSIVE BeginLoopStops(_, _, _)
BeginLoopStops(st, i, ok) ==
  IF i > Len(actuatorConfigs) THEN st
  ELSE IF ~actuatorConfigs[i].enabled THEN BeginLoopStops(st, i + 1, ok)
  ELSE IF ~AddActuatorTo(st, i, ok[i]).res THEN st
  ELSE BeginLoopStops(AddActuatorTo(st, i, ok[i]), i + 1, ok)

\* The loop of begin() (Managers.cpp line 221-230, ActuatorManager.cpp line
\* 15-28) over the descriptors from place i on.
RECURSIVE BeginLoop(_, _, _)
BeginLoop(st, i, ok) ==
  IF i > Len(actuatorConfigs) THEN st
  ELSE IF ~actuatorConfigs[i].enabled THEN BeginLoop(st, i + 1, ok)
  ELSE BeginLoop(AddActuatorTo(st, i, ok[i]), i + 1, ok)

\* activate() of the driver at place k of the registry.
DriverActivate(st, k) ==
  LET a == st.acts[k]  i == a.cfg  c == actuatorConfigs[i] IN
    CASE c.type = "Relay" ->
           IF ~a.initialized THEN [st EXCEPT !.res = FALSE]
           ELSE [st EXCEPT
                   !.hw.pinHigh[i] = ~InactiveLevel(c.invertLogic),
                   !.acts[k].currentState = TRUE, !.res = TRUE]
      [] c.type = "PWMOutput" ->
           IF ~a.initialized THEN [st EXCEPT !.res = FALSE]
           ELSE [st EXCEPT
                   !.hw.ledc = PwmValue(ActivateDuty),
                   !.acts[k].currentState = (ActivateDuty > 0), !.res = TRUE]
      [] OTHER ->
           IF ~a.initialized THEN [st EXCEPT !.res = FALSE]
           ELSE [st EXCEPT
                   !.hw.pinHigh[i] = TRUE,
                   !.acts[k].sprayActive = TRUE,
                   !.acts[k].currentState = TRUE, !.res = TRUE]

\* deactivate() of the driver at place k of the registry
\* (RelayActuator::deactivate, PWMActuator::deactivate -> setDutyCycle(0),
\* VenturiNozzleActuator::deactivate -> stopSpray).
DriverDeactivate(st, k) ==
  LET a == st.acts[k]  i == a.cfg  c == actuatorConfigs[i] IN
    CASE c.type = "Relay" ->
           IF ~a.initialized THEN [st EXCEPT !.res = FALSE]
           ELSE [st EXCEPT
                   !.hw.pinHigh[i] = InactiveLevel(c.invertLogic),
                   !.acts[k].currentState = FALSE, !.res = TRUE]
      [] c.type = "PWMOutput" ->
           IF ~a.initialized THEN [st EXCEPT !.res = FALSE]
           ELSE [st EXCEPT
                   !.hw.ledc = PwmValue(0),
                   !.acts[k].currentState = FALSE, !.res = TRUE]
      [] OTHER ->
           IF ~a.initialized \/ ~a.sprayActive
             THEN [st EXCEPT !.res = FALSE]
           ELSE [st EXCEPT
                   !.hw.pinHigh[i] = FALSE,
                   !.acts[k].sprayActive = FALSE,
                   !.acts[k].currentState = FALSE, !.res = TRUE]

\* The loop of emergencyStopAll (line 322-327) from place k on: deactivate
\* what reports isActive().
RECURSIVE StopLoop(_, _)
StopLoop(st, k) ==
  IF k > Len(st.acts) THEN st
  ELSE IF st.acts[k].currentState
         THEN StopLoop(DriverDeactivate(st, k), k + 1)
         ELSE StopLoop(st, k + 1)

\* shutdown() of the driver at place k: deactivate when active (the nozzle
\* tests sprayActive), detach a PWM pin, initialized = false.
DriverShutdown(st, k) ==
  LET a == st.acts[k]  i == a.cfg  c == actuatorConfigs[i]
      active == IF c.type \in {"Relay", "PWMOutput"} THEN a.currentState
                ELSE a.sprayActive
      d == IF active THEN DriverDeactivate(st, k) ELSE st
  IN [d EXCEPT !.acts[k].initialized = FALSE,
               !.hw.attached = IF c.type = "PWMOutput" THEN @ \ {i} ELSE @]

\* The loop of shutdown() (line 247-249) from place k on.
RECURSIVE ShutdownLoop(_, _)
ShutdownLoop(st, k) ==
  IF k > Len(st.acts) THEN st
  ELSE ShutdownLoop(DriverShutdown(st, k), k + 1)

\* The first place of the registry whose driver has the name, 0 when none.
FindActuator(name) ==
  LET ks == {k \in 1..Len(actuators) :
               actuatorConfigs[actuators[k].cfg].name = name}
  IN IF ks = {} THEN 0 ELSE CHOOSE k \in ks : \A j \in ks : k <= j

MgrNow == [acts |-> actuators, hw |-> hw, res |-> FALSE]

NoMgrCall == [op |-> "none", res |-> FALSE, arg |-> 0, ok |-> <<>>,
              wasOn |-> {}, energized |-> {}]

\* The managers before begin(), for some actuator configuration.
InitMgr ==
  /\ mgr \in {"core", "legacy"}
  /\ actuatorConfigs \in UNION {Configurations(n) : n \in 0..MaxConfigs}
  /\ actuators = <<>>
  /\ hw = HwReset
  /\ mgrState = "UNINITIALIZED"
  /\ mret = NoMgrCall

\* The managers out of the picture.
MgrIdle ==
  /\ mgr = "core" /\ actuatorConfigs = <<>> /\ actuators = <<>>
  /\ hw = HwReset /\ mgrState = "UNINITIALIZED" /\ mret = NoMgrCall

\* The results the begin() of the drivers may give: the drivers of the
\* core manager always return true, those of the legacy manager are not
\* part of the sources.
BeginResults ==
  IF mgr = "core" THEN {[i \in 1..Len(actuatorConfigs) |-> TRUE]}
  ELSE [1..Len(actuatorConfigs) -> BOOLEAN]

\* ActuatorManager::begin().
MgrBegin ==
  /\ mgrState = "UNINITIALIZED"
  /\ \E ok \in BeginResults :
       \E st \in {BeginLoop(MgrNow, 1, ok)} :
         /\ Len(st.acts) <= MaxActuators
         /\ actuators' = st.acts
         /\ hw' = st.hw
         /\ mret' = [NoMgrCall EXCEPT !.op = "begin", !.res = TRUE,
                                      !.arg = Len(actuators), !.ok = ok]
  /\ mgrState' = "READY"
  /\ UNCHANGED <<mgr, actuatorConfigs, outsideMgr>>

\* ActuatorManager::addActuator(config) with the descriptor at place i of
\* the configuration.
AddActuator(i) ==
  /\ mgr = "core" /\ mgrState # "SHUTDOWN"
  /\ i \in 1..Len(actuatorConfigs)
  /\ Len(actuators) < MaxActuators
  /\ \E st \in {AddActuatorTo(MgrNow, i, TRUE)} :
       /\ actuators' = st.acts
       /\ hw' = st.hw
       /\ mret' = [NoMgrCall EXCEPT !.op = "add", !.res = st.res,
                                    !.arg = i]
  /\ UNCHANGED <<mgr, actuatorConfigs, mgrState, outsideMgr>>

\* What activateActuator(name) and deactivateActuator(name) return: the
\* result of the first driver of that name, false when there is none
\* (line 300-306, 310-316).
ActivateResult(name) ==
  FindActuator(name) # 0 /\ DriverActivate(MgrNow, FindActuator(name)).res

DeactivateResult(name) ==
  FindActuator(name) # 0 /\ DriverDeactivate(MgrNow, FindActuator(name)).res

\* ActuatorManager::activateActuator(name), line 299-307.
ActivateActuator(name) ==
  /\ mgr = "core" /\ mgrState # "SHUTDOWN"
  /\ \E k \in {FindActuator(name)} :
     \E st \in {IF k = 0 THEN MgrNow ELSE DriverActivate(MgrNow, k)} :
       /\ actuators' = st.acts
       /\ hw' = st.hw
       /\ mret' = NoMgrCall
  /\ UNCHANGED <<mgr, actuatorConfigs, mgrState, outsideMgr>>

\* ActuatorManager::deactivateActuator(name), line 309-317.
DeactivateActuator(name) ==
  /\ mgr = "core" /\ mgrState # "SHUTDOWN"
  /\ \E k \in {FindActuator(name)} :
     \E st \in {IF k = 0 THEN MgrNow ELSE DriverDeactivate(MgrNow, k)} :
       /\ actuators' = st.acts
       /\ hw' = st.hw
       /\ mret' = NoMgrCall
  /\ UNCHANGED <<mgr, actuatorConfigs, mgrState, outsideMgr>>

\* The loop of update() (line 257-263) from place k on: a nozzle driver
\* whose spray time has elapsed (the places in due) stops its spray
\* (VenturiNozzleActuator::update, line 542-549).
RECURSIVE UpdateLoop(_, _, _)
UpdateLoop(st, k, due) ==
  IF k > Len(st.acts) THEN st
  ELSE LET a == st.acts[k] IN
    IF /\ actuatorConfigs[a.cfg].type = "VenturiNozzle"
       /\ a.initialized /\ a.sprayActive /\ k \in due
      THEN UpdateLoop(DriverDeactivate(st, k), k + 1, due)
      ELSE UpdateLoop(st, k + 1, due)

\* ActuatorManager::update(), called by DeviceCoordinator::update while the
\* manager is ready.
MgrUpdate ==
  /\ mgr = "core" /\ mgrState = "READY"
  /\ \E due \in SUBSET {k \in 1..Len(actuators) :
                           actuators[k].sprayActive} :
       \E st \in {UpdateLoop(MgrNow, 1, due)} :
         /\ actuators' = st.acts
         /\ hw' = st.hw
  /\ mret' = NoMgrCall
  /\ UNCHANGED <<mgr, actuatorConfigs, mgrState, outsideMgr>>

\* The outputs of the registered drivers that are energized in hardware h.
EnergizedOutputs(h) ==
  {i \in {actuators[k].cfg : k \in 1..Len(actuators)} : Energized(h, i)}

\* ActuatorManager::emergencyStopAll(), line 319-331.
EmergencyStopAll ==
  /\ mgr = "core" /\ mgrState # "SHUTDOWN"
  /\ \E st \in {StopLoop(MgrNow, 1)} :
       /\ actuators' = st.acts
       /\ hw' = st.hw
       /\ mret' = [NoMgrCall EXCEPT !.op = "emergencyStopAll",
                                    !.wasOn = EnergizedOutputs(hw),
                                    !.energized = EnergizedOutputs(st.hw)]
  /\ UNCHANGED <<mgr, actuatorConfigs, mgrState, outsideMgr>>

\* ActuatorManager::shutdown(), line 241-253: emergencyStopAll(), the
\* shutdown() of every driver, actuators.clear().
MgrShutdown ==
  /\ mgr = "core" /\ mgrState # "SHUTDOWN"
  /\ \E st \in {ShutdownLoop(StopLoop(MgrNow, 1), 1)} :
       /\ actuators' = <<>>
       /\ hw' = st.hw
       /\ mret' = [NoMgrCall EXCEPT !.op = "shutdown",
                                    !.wasOn = EnergizedOutputs(hw),
                                    !.energized = EnergizedOutputs(st.hw)]
  /\ mgrState' = "SHUTDOWN"
  /\ UNCHANGED <<mgr, actuatorConfigs, outsideMgr>>

\* ------------------------------------------------------- sensor polling
\* The periodic sensor task of the two generations: SensorTask::task of the
\* legacy firmware (SensorTask.cpp line 63-83), which polls ISensor objects,
\* and SensorManager::sensorTask of the core (Managers.cpp line 120-133),
\* which calls readAllSensors.  A second task calls begin, stop, shutdown
\* and getAllReadings.  The events a successful read publishes leave the
\* sensor state alone and are not followed here.

MaxSensors == 2

SensorIds == 1..MaxSensors
SensorGens == {"core", "legacy"}

\* The handle xTaskCreate stores for the polling task.
PollingTask == NullHandle + 1

NoSensorCall ==
  [op |-> "none", sensor |-> 0, failed |-> FALSE, valid |-> FALSE,
   at |-> "-"]

\* The sensors found by begin(): the first n descriptors, all enabled.
FirstSensors(n) == [i \in 1..n |-> i]

\* Before begin().  The legacy setup() has added its sensors to the task
\* (main.cpp line 136, 140); the core registry is filled by begin().
InitSensor ==
  /\ sgen \in SensorGens
  /\ fault \in [SensorIds -> BOOLEAN]
  /\ initialized = [i \in SensorIds |-> FALSE]
  /\ sensors \in IF sgen = "legacy"
                   THEN {FirstSensors(n) : n \in 1..MaxSensors}
                   ELSE {<<>>}
  /\ lastReadings = <<>>
  /\ running = FALSE
  /\ sensorState = "UNINITIALIZED"
  /\ sensorTaskHandle = NullHandle
  /\ spc = "none" /\ si = 0
  /\ cpos = "idle"
  /\ sret = NoSensorCall

\* The sensor side left unused.
SensorIdle ==
  /\ sgen = "core"
  /\ fault = [i \in SensorIds |-> FALSE]
  /\ initialized = [i \in SensorIds |-> FALSE]
  /\ sensors = <<>>
  /\ lastReadings = <<>>
  /\ running = FALSE
  /\ sensorState = "UNINITIALIZED"
  /\ sensorTaskHandle = NullHandle
  /\ spc = "none" /\ si = 0
  /\ cpos = "idle"
  /\ sret = NoSensorCall

\* The device starts or stops answering (bus error, checksum mismatch,
\* timeout).
HwChange(i) ==
  /\ fault' = [fault EXCEPT ![i] = ~@]
  /\ sret' = NoSensorCall
  /\ UNCHANGED <<sgen, sensors, initialized, lastReadings, running,
                 sensorState, sensorTaskHandle, spc, si, cpos>>
  /\ UNCHANGED outsideSensor

\* SHT3xSensor::begin (legacy line 7-24, core EnvironmentalDevice.cpp line
\* 117-147): the test transfer decides.
SensorBeginOk(i) == ~fault[i]

\* SensorTask::begin (legacy line 18-39): every sensor's begin(), then
\* xTaskCreate.  running is set by the next statement.
LegacyBeginCreate ==
  /\ sgen = "legacy" /\ cpos = "idle" /\ ~running
  /\ initialized' = [i \in SensorIds |->
                       IF \E k \in 1..Len(sensors) : sensors[k] = i
                         THEN SensorBeginOk(i) ELSE initialized[i]]
  /\ sensorTaskHandle' = PollingTask
  /\ spc' = "test" /\ si' = 0
  /\ cpos' = "begin"
  /\ sret' = [NoSensorCall EXCEPT !.op = "beginAll"]
  /\ UNCHANGED <<sgen, sensors, fault, lastReadings, running, sensorState>>
  /\ UNCHANGED outsideSensor

\* SensorTask::begin, line 41: running = true.
LegacyBeginRun ==
  /\ sgen = "legacy" /\ cpos = "begin"
  /\ running' = TRUE
  /\ cpos' = "idle"
  /\ sret' = NoSensorCall
  /\ UNCHANGED <<sgen, sensors, initialized, fault, lastReadings,
                 sensorState, sensorTaskHandle, spc, si>>
  /\ UNCHANGED outsideSensor

\* The registry begin() builds from the first n descriptors (Managers.cpp
\* line 27-36, addSensor line 88-103): a sensor is registered only when its
\* begin() has succeeded.
RegisteredSensors(n) == SelectSeq(FirstSensors(n), SensorBeginOk)

\* SensorManager::begin (Managers.cpp line 11-54): with no sensor it fails;
\* otherwise it creates the task.  READY is set by line 60.
CoreBeginCreate ==
  /\ sgen = "core" /\ cpos = "idle"
  /\ sensorState \in {"UNINITIALIZED", "ERROR", "SHUTDOWN"}
  /\ \E n \in 1..MaxSensors :
       /\ sensors' = RegisteredSensors(n)
       /\ initialized' = [i \in SensorIds |->
                            \E k \in 1..Len(RegisteredSensors(n)) :
                               RegisteredSensors(n)[k] = i]
       /\ IF RegisteredSensors(n) = <<>>
            THEN /\ sensorState' = "ERROR"
                 /\ UNCHANGED <<sensorTaskHandle, spc, si, cpos>>
            ELSE /\ sensorState' = "INITIALIZING"
                 /\ sensorTaskHandle' = PollingTask
                 /\ spc' = "test" /\ si' = 0
                 /\ cpos' = "begin"
  /\ sret' = [NoSensorCall EXCEPT !.op = "beginAll"]
  /\ UNCHANGED <<sgen, fault, lastReadings, running>>
  /\ UNCHANGED outsideSensor

\* SensorManager::begin, line 60: setState(READY).
CoreBeginReady ==
  /\ sgen = "core" /\ cpos = "begin"
  /\ sensorState' = "READY"
  /\ cpos' = "idle"
  /\ sret' = NoSensorCall
  /\ UNCHANGED <<sgen, sensors, initialized, fault, lastReadings, running,
                 sensorTaskHandle, spc, si>>
  /\ UNCHANGED outsideSensor

\* The polling task is in its loop.
TaskLive == spc \in {"test", "poll", "delay"}

\* Mutation of ReadsInState: the task reads whatever the manager state is.
ReadsInAnyState(st) == TRUE

\* The test of sensorTask, line 127: getState() == ManagerState::READY.
ReadsInState(st) == st = "READY"

\* The head of the loop.  Legacy (line 67): while (running), and
\* vTaskDelete(nullptr) after the loop.  Core (line 126-129, 135-138):
\* while (true); readAllSensors when READY, which returns on an empty
\* registry and otherwise clears lastReadings.
TaskTest ==
  /\ spc = "test"
  /\ IF sgen = "legacy"
       THEN /\ IF ~running
                 THEN /\ spc' = "exited" /\ si' = 0
                      /\ sret' = [NoSensorCall EXCEPT !.op = "exit",
                                                      !.at = "test"]
                 ELSE /\ spc' = IF sensors = <<>> THEN "delay" ELSE "poll"
                      /\ si' = IF sensors = <<>> THEN 0 ELSE 1
                      /\ sret' = NoSensorCall
            /\ UNCHANGED lastReadings
       ELSE /\ IF ReadsInState(sensorState) /\ sensors # <<>>
                 THEN /\ spc' = "poll" /\ si' = 1
                      /\ lastReadings' = <<>>
                 ELSE /\ spc' = "delay" /\ si' = 0
                      /\ UNCHANGED lastReadings
            /\ sret' = NoSensorCall
  /\ UNCHANGED <<sgen, sensors, initialized, fault, running, sensorState,
                 sensorTaskHandle, cpos>>
  /\ UNCHANGED outsideSensor

\* Mutation of PollOfNotReady: a sensor that is not ready is passed over.
PollSkipsNotReady(g) == "skip"

\* What the loop does with a sensor that is not ready: the legacy task
\* calls begin() on it (line 72-75), readAllSensors passes it over
\* (Managers.cpp line 142-145).
PollOfNotReady(g) == IF g = "legacy" THEN "begin" ELSE "skip"

\* The ready flag after a read that failed: the legacy read() clears
\* connected (SHT3xSensor.cpp line 62-63), the core read() returns an
\* invalid reading and leaves initialized as it is (EnvironmentalDevice.cpp
\* line 155-175).
ReadyAfterFailedRead(g) == g # "legacy"

\* The valid mark of the reading a read() produces: the default-constructed
\* SensorReading of the failure paths is invalid (BaseClasses.h line 15-30,
\* EnvironmentalDevice.cpp line 155-175), the reading of line 188 is valid.
\* The legacy read() publishes a value event on success and sensor.error
\* on failure (SHT3xSensor.cpp line 52-64).
ReadingValid(failed) == ~failed

\* The step of the loop after the sensor at place si.
PollAdvance ==
  IF si < Len(sensors) THEN spc' = "poll" /\ si' = si + 1
                       ELSE spc' = "delay" /\ si' = 0

\* The loop body for the sensor at place si (legacy line 69-76, core
\* Managers.cpp line 141-156).  The legacy read() returns at once when less
\* than 1000 ms have passed since the last successful read (line 27-29).
TaskPoll ==
  /\ spc = "poll" /\ si \in 1..Len(sensors)
  /\ \E early \in IF sgen = "legacy" THEN BOOLEAN ELSE {FALSE} :
       LET s == sensors[si] IN
         IF ~initialized[s]
           THEN /\ early = FALSE
                /\ IF PollOfNotReady(sgen) = "begin"
                     THEN /\ initialized' =
                               [initialized EXCEPT ![s] = SensorBeginOk(s)]
                          /\ sret' = [NoSensorCall EXCEPT
                                        !.op = "begin", !.sensor = s,
                                        !.valid = SensorBeginOk(s)]
                     ELSE /\ UNCHANGED initialized
                          /\ sret' = [NoSensorCall EXCEPT
                                        !.op = "skip", !.sensor = s]
                /\ UNCHANGED lastReadings
           ELSE IF early
             THEN /\ sret' = [NoSensorCall EXCEPT
                                !.op = "early", !.sensor = s]
                  /\ UNCHANGED <<initialized, lastReadings>>
             ELSE /\ initialized' =
                       [initialized EXCEPT
                          ![s] = IF fault[s] THEN ReadyAfterFailedRead(sgen)
                                 ELSE TRUE]
                  /\ lastReadings' =
                       IF sgen = "core"
                         THEN Append(lastReadings,
                                     [sensor |-> s,
                                      valid |-> ReadingValid(fault[s])])
                         ELSE lastReadings
                  /\ sret' = [NoSensorCall EXCEPT
                                !.op = "read", !.sensor = s,
                                !.failed = fault[s],
                                !.valid = ReadingValid(fault[s])]
  /\ PollAdvance
  /\ UNCHANGED <<sgen, sensors, fault, running, sensorState,
                 sensorTaskHandle, cpos>>
  /\ UNCHANGED outsideSensor

\* vTaskDelayUntil returns (legacy line 79, core line 131).
TaskDelay ==
  /\ spc = "delay"
  /\ spc' = "test"
  /\ sret' = NoSensorCall
  /\ UNCHANGED <<sgen, sensors, initialized, fault, lastReadings, running,
                 sensorState, sensorTaskHandle, si, cpos>>
  /\ UNCHANGED outsideSensor

\* SensorTask::stop, line 46-47: with a task handle, running = false.
LegacyStopFlag ==
  /\ sgen = "legacy" /\ cpos = "idle" /\ sensorTaskHandle # NullHandle
  /\ running' = FALSE
  /\ cpos' = "stop"
  /\ sret' = NoSensorCall
  /\ UNCHANGED <<sgen, sensors, initialized, fault, lastReadings,
                 sensorState, sensorTaskHandle, spc, si>>
  /\ UNCHANGED outsideSensor

\* SensorTask::stop, line 48-49: vTaskDelete(taskHandle) wherever the task
\* is, then taskHandle = nullptr.
LegacyStopDelete ==
  /\ sgen = "legacy" /\ cpos = "stop"
  /\ sret' = [NoSensorCall EXCEPT !.op = "kill", !.at = spc]
  /\ spc' = "killed" /\ si' = 0
  /\ sensorTaskHandle' = NullHandle
  /\ cpos' = "idle"
  /\ UNCHANGED <<sgen, sensors, initialized, fault, lastReadings, running,
                 sensorState>>
  /\ UNCHANGED outsideSensor

\* SensorManager::shutdown, line 65: setState(SHUTDOWN).
CoreShutdownState ==
  /\ sgen = "core" /\ cpos = "idle" /\ sensorState # "UNINITIALIZED"
  /\ sensorState' = "SHUTDOWN"
  /\ cpos' = "shutdown"
  /\ sret' = NoSensorCall
  /\ UNCHANGED <<sgen, sensors, initialized, fault, lastReadings, running,
                 sensorTaskHandle, spc, si>>
  /\ UNCHANGED outsideSensor

\* SensorManager::shutdown, line 68-80: vTaskDelete(sensorTaskHandle)
\* wherever the task is, then every sensor's shutdown() and the two clear().
CoreShutdownDelete ==
  /\ sgen = "core" /\ cpos = "shutdown"
  /\ IF sensorTaskHandle # NullHandle
       THEN /\ sret' = [NoSensorCall EXCEPT !.op = "kill", !.at = spc]
            /\ spc' = "killed" /\ si' = 0
       ELSE /\ sret' = NoSensorCall
            /\ UNCHANGED <<spc, si>>
  /\ sensorTaskHandle' = NullHandle
  /\ initialized' = [i \in SensorIds |-> FALSE]
  /\ sensors' = <<>>
  /\ lastReadings' = <<>>
  /\ cpos' = "idle"
  /\ UNCHANGED <<sgen, fault, running, sensorState>>
  /\ UNCHANGED outsideSensor

\* SensorManager::getAllReadings (Managers.cpp line 175-177) starts to copy
\* lastReadings.  Neither it nor readAllSensors takes a lock.
GetAllReadingsCall ==
  /\ sgen = "core" /\ cpos = "idle" /\ sensorState = "READY"
  /\ cpos' = "copy"
  /\ sret' = NoSensorCall
  /\ UNCHANGED <<sgen, sensors, initialized, fault, lastReadings, running,
                 sensorState, sensorTaskHandle, spc, si>>
  /\ UNCHANGED outsideSensor

\* getAllReadings returns its copy.
GetAllReadingsReturn ==
  /\ sgen = "core" /\ cpos = "copy"
  /\ cpos' = "idle"
  /\ sret' = [NoSensorCall EXCEPT !.op = "getAll"]
  /\ UNCHANGED <<sgen, sensors, initialized, fault, lastReadings, running,
                 sensorState, sensorTaskHandle, spc, si>>
  /\ UNCHANGED outsideSensor

\* ------------------------------------------------------- timed spray
\* One VenturiNozzleActuator (EnvironmentalDevice.cpp line 466-549) after
\* its begin(), with the clock: startSpray and stopSpray as called by
\* activate, deactivate and the callers of the driver, update as called by
\* ActuatorManager::update (Managers.cpp line 255-264) from
\* DeviceCoordinator::update.  currentState always equals sprayActive.

TimerBits == 3
MaxDuration == 2

\* millis() counts modulo 2^TimerBits.
Modulus == 2 ^ TimerBits

\* update() comes round before the counter has gone once round since the
\* start of the spray.
MaxElapsed == Modulus - 1

NoSprayCall == [op |-> "none", res |-> FALSE, pub |-> "-", was |-> FALSE]

\* After begin() (line 466-479), at any value of the clock, with
\* sprayDurationMs taken from config.pulseWidthMs by the constructor.
InitTimer ==
  /\ now \in 0..(Modulus - 1)
  /\ nozzlePin = FALSE
  /\ sprayActive = FALSE
  /\ sprayStartTime = 0
  /\ sprayDurationMs \in 0..MaxDuration
  /\ elapsed = 0
  /\ vret = NoSprayCall

\* The timed spray left unused.
TimerIdle ==
  /\ now = 0 /\ nozzlePin = FALSE /\ sprayActive = FALSE
  /\ sprayStartTime = 0 /\ sprayDurationMs = 0 /\ elapsed = 0
  /\ vret = NoSprayCall

\* One millisecond passes.
MillisTick ==
  /\ sprayActive => elapsed < MaxElapsed
  /\ now' = (now + 1) % Modulus
  /\ elapsed' = IF sprayActive THEN elapsed + 1 ELSE 0
  /\ vret' = NoSprayCall
  /\ UNCHANGED <<nozzlePin, sprayActive, sprayStartTime, sprayDurationMs>>
  /\ UNCHANGED outsideTimer

\* startSpray(durationMs), line 497-522; activate() passes sprayDurationMs.
\* There is no test of sprayActive.
NozzleStartSpray(durationMs) ==
  /\ nozzlePin' = TRUE
  /\ sprayActive' = TRUE
  /\ sprayStartTime' = now
  /\ sprayDurationMs' = IF durationMs = 0 THEN sprayDurationMs
                        ELSE durationMs
  /\ elapsed' = 0
  /\ vret' = [op |-> "start", res |-> TRUE, pub |-> "on",
              was |-> sprayActive]
  /\ UNCHANGED now
  /\ UNCHANGED outsideTimer

\* The state after stopSpray(), line 527-538.
SprayStopped ==
  /\ nozzlePin' = FALSE
  /\ sprayActive' = FALSE
  /\ elapsed' = 0

\* stopSpray(), line 524-540; deactivate() is this call.
NozzleStopSpray ==
  /\ IF ~sprayActive
       THEN /\ vret' = [NoSprayCall EXCEPT !.op = "stop"]
            /\ UNCHANGED <<nozzlePin, sprayActive, elapsed>>
       ELSE /\ SprayStopped
            /\ vret' = [op |-> "stop", res |-> TRUE, pub |-> "off",
                        was |-> TRUE]
  /\ UNCHANGED <<now, sprayStartTime, sprayDurationMs>>
  /\ UNCHANGED outsideTimer

\* Mutation of SinceStart: a plain difference, with no wrap.
SinceStartNoWrap(n, st) == IF n >= st THEN n - st ELSE 0

\* millis() - sprayStartTime in unsigned arithmetic (line 546).
SinceStart(n, st) == (n - st) % Modulus

\* update(), line 542-549.
NozzleUpdate ==
  /\ IF sprayActive /\ SinceStart(now, sprayStartTime) >= sprayDurationMs
       THEN /\ SprayStopped
            /\ vret' = [op |-> "update", res |-> TRUE, pub |-> "off",
                        was |-> TRUE]
       ELSE /\ vret' = [NoSprayCall EXCEPT !.op = "update",
                                           !.was = sprayActive]
            /\ UNCHANGED <<nozzlePin, sprayActive, elapsed>>
  /\ UNCHANGED <<now, sprayStartTime, sprayDurationMs>>
  /\ UNCHANGED outsideTimer

\* ------------------------------------------------------------ startup
\* setup() of src/main.cpp (line 29-125) and DeviceCoordinator::begin
\* (Managers.cpp line 439-478), with SensorManager::begin of either
\* (sensors/SensorManager.cpp line 8-40, Managers.cpp line 11-62).

BootGens == {"main", "coordinator"}

\* Power-on: the configuration holds MaxSensors sensor descriptors, each
\* enabled or not, each with hardware that comes up or does not.
InitBoot ==
  /\ bgen \in BootGens
  /\ bstage = "core"
  /\ bhw \in [SensorIds -> [enabled : BOOLEAN, ok : BOOLEAN]]
  /\ bidx = 1
  /\ bsensors = {}
  /\ bact = FALSE
  /\ btasks = FALSE
  /\ bfail = "-"

\* The startup left unused.
BootIdle ==
  /\ bgen = "main" /\ bstage = "off"
  /\ bhw = [i \in SensorIds |-> [enabled |-> FALSE, ok |-> FALSE]]
  /\ bidx = 1 /\ bsensors = {} /\ bact = FALSE /\ btasks = FALSE
  /\ bfail = "-"

\* The startup stops: setup() spins in while(true) delay(1000) (main.cpp
\* line 38-53), DeviceCoordinator::begin returns false in state ERROR.
BootStops(cause) ==
  /\ bstage' = "halted"
  /\ bfail' = cause

\* initializeCoreSystem (main.cpp line 67-77): config.begin() succeeds or
\* fails; DeviceCoordinator::begin line 445-460: the capabilities are set
\* or not, then SystemMonitor::begin, which always returns true.
BootCore ==
  /\ bstage = "core"
  /\ \E ok \in BOOLEAN :
       IF ok THEN bstage' = "sensors" /\ UNCHANGED bfail
             ELSE BootStops("core")
  /\ UNCHANGED <<bgen, bhw, bidx, bsensors, bact, btasks>>
  /\ UNCHANGED outsideBoot

\* The loop body of SensorManager::begin keeps a sensor that is enabled,
\* created and whose begin() succeeds.
KeepsSensor(cfg) == cfg.enabled /\ cfg.ok

\* One turn of the loop over the sensor descriptors.
BootSensorLoop ==
  /\ bstage = "sensors"
  /\ bidx <= MaxSensors
  /\ bsensors' = IF KeepsSensor(bhw[bidx]) THEN bsensors \cup {bidx}
                 ELSE bsensors
  /\ bidx' = bidx + 1
  /\ UNCHANGED <<bgen, bstage, bhw, bact, btasks, bfail>>
  /\ UNCHANGED outsideBoot

\* After the loop: with no sensor registered begin() returns false
\* (sensors/SensorManager.cpp line 32-35, Managers.cpp line 38-41) and
\* its caller stops the startup (main.cpp line 82-85 and 44-47,
\* Managers.cpp line 474-477).  The coordinator's sensor manager creates
\* its polling task here, which can fail (Managers.cpp line 44-57).
BootSensorsDone ==
  /\ bstage = "sensors"
  /\ bidx > MaxSensors
  /\ IF bsensors = {}
       THEN BootStops("sensors") /\ UNCHANGED btasks
       ELSE IF bgen = "coordinator"
         THEN \E created \in BOOLEAN :
                IF created
                  THEN /\ bstage' = "actuators" /\ btasks' = TRUE
                       /\ UNCHANGED bfail
                  ELSE BootStops("task") /\ UNCHANGED btasks
         ELSE bstage' = "actuators" /\ UNCHANGED <<btasks, bfail>>
  /\ UNCHANGED <<bgen, bhw, bidx, bsensors, bact>>
  /\ UNCHANGED outsideBoot

\* ActuatorManager::begin returns true with any number of actuators
\* (actuators/ActuatorManager.cpp line 8-37, Managers.cpp line 205-239);
\* the coordinator is then READY (line 484).
BootActuators ==
  /\ bstage = "actuators"
  /\ bact' = TRUE
  /\ bstage' = IF bgen = "coordinator" THEN "running" ELSE "comm"
  /\ UNCHANGED <<bgen, bhw, bidx, bsensors, btasks, bfail>>
  /\ UNCHANGED outsideBoot

\* initializeCommunication (main.cpp line 96-115): apiClient.begin() or
\* displayUART.begin() can fail.
BootComm ==
  /\ bstage = "comm"
  /\ \E ok \in BOOLEAN :
       IF ok THEN bstage' = "tasks" /\ UNCHANGED bfail
             ELSE BootStops("comm")
  /\ UNCHANGED <<bgen, bhw, bidx, bsensors, bact, btasks>>
  /\ UNCHANGED outsideBoot

\* startSystemTasks and the end of setup() (main.cpp line 56-59).
BootTasks ==
  /\ bstage = "tasks"
  /\ btasks' = TRUE
  /\ bstage' = "running"
  /\ UNCHANGED <<bgen, bhw, bidx, bsensors, bact, bfail>>
  /\ UNCHANGED outsideBoot

\* ------------------------------------------------- readings and health
\* The polling cycle of src/sensors/SensorManager.cpp (readAllSensors,
\* line 63-92, publishSensorEvent, line 94-117) over registered sensors
\* whose read() yields a reading of some type and value, and the health
\* check of SystemMonitor (Managers.cpp line 367-417).

\* The defaults of Config::getSafety (Config.cpp line 225-237).
MaxTemperatureC == 50
MinTemperatureC == -10
MaxHumidityPercent == 95
MaxPressurePSI == 100

\* The floors of SystemMonitor::checkSystemHealth (line 397, 402).
HeapFloor == 10000
SignalFloor == -80

\* What a sensor can measure: values below, inside and above the limits.
RawReadings ==
  [type : {"temperature"}, value : {-20, 20, 60}]
    \cup [type : {"humidity"}, value : {50, 97, 120}]
    \cup [type : {"pressure"}, value : {50, 150}]

\* What read() gives in a cycle: a sensor that is not ready is skipped, a
\* failed read gives an invalid reading, else a reading is returned.
SensorOutcomes ==
  {[ready |-> FALSE, valid |-> FALSE, type |-> "-", value |-> 0],
   [ready |-> TRUE, valid |-> FALSE, type |-> "-", value |-> 0]}
    \cup {[ready |-> TRUE, valid |-> TRUE, type |-> r.type,
           value |-> r.value] : r \in RawReadings}

\* SHT30Sensor::applyCalibration (SHT3xSensor.cpp line 155-173) with
\* offset 0 and scale 1: humidity is constrained to 0..100, a temperature
\* out of -40..125 is logged and returned as it is.
Calibrated(r) ==
  IF r.type = "humidity"
    THEN [r EXCEPT !.value = IF r.value > 100 THEN 100
                             ELSE IF r.value < 0 THEN 0 ELSE r.value]
    ELSE r

\* publishSensorEvent, line 94-117: the event type of a reading.
SensorEventType(r) == "sensor." \o r.type

\* The readings kept by readAllSensors from the outcomes of the sensors.
RECURSIVE ReadingsOf(_)
ReadingsOf(outs) ==
  IF outs = <<>> THEN <<>>
  ELSE IF ~Head(outs).ready THEN ReadingsOf(Tail(outs))
  ELSE <<Calibrated(Head(outs))>> \o ReadingsOf(Tail(outs))

\* The events readAllSensors publishes for its readings: one sensor event
\* for each valid reading, nothing else.
RECURSIVE EventsOf(_)
EventsOf(rs) ==
  IF rs = <<>> THEN <<>>
  ELSE IF Head(rs).valid
    THEN <<SensorEventType(Head(rs))>> \o EventsOf(Tail(rs))
    ELSE EventsOf(Tail(rs))

NoMetrics == [freeHeap |-> 0, wifiRSSI |-> 0]

InitHealth ==
  /\ hop = "none"
  /\ cycleReadings = <<>>
  /\ currentMetrics = NoMetrics
  /\ cycleEvents = <<>>

\* One polling cycle: readAllSensors over the registered sensors.
PollCycle ==
  /\ \E outs \in [1..MaxSensors -> SensorOutcomes] :
       /\ cycleReadings' = ReadingsOf(outs)
       /\ cycleEvents' = EventsOf(ReadingsOf(outs))
  /\ hop' = "poll"
  /\ UNCHANGED currentMetrics
  /\ UNCHANGED outsideHealth

\* collectMetrics, line 378-393: the free heap, and the signal strength
\* of the link, 0 when the link is down.
Sampled(heap, connected, rssi) ==
  [freeHeap |-> heap, wifiRSSI |-> IF connected THEN rssi ELSE 0]

\* Mutation of HealthErrors: the heap alone is tested.
HealthErrorsHeapOnly(m) ==
  IF m.freeHeap < HeapFloor THEN <<"system.error">> ELSE <<>>

\* checkSystemHealth, line 395-405: the errors published for metrics m.
HealthErrors(m) ==
  (IF m.freeHeap < HeapFloor THEN <<"system.error">> ELSE <<>>)
    \o (IF m.wifiRSSI < SignalFloor THEN <<"system.error">> ELSE <<>>)

\* isSystemHealthy, line 418-421, on metrics m.
IsSystemHealthy(m) == m.freeHeap > HeapFloor /\ m.wifiRSSI > SignalFloor

\* A health check of SystemMonitor::update, line 367-376: collectMetrics,
\* checkSystemHealth, publishMetrics.
HealthCheck ==
  /\ \E heap \in {HeapFloor - 1, HeapFloor, HeapFloor + 1},
        connected \in BOOLEAN,
        rssi \in {SignalFloor - 1, SignalFloor, SignalFloor + 1} :
       /\ currentMetrics' = Sampled(heap, connected, rssi)
       /\ cycleEvents' = HealthErrors(Sampled(heap, connected, rssi))
                           \o <<"system.metrics">>
  /\ hop' = "health"
  /\ UNCHANGED cycleReadings
  /\ UNCHANGED outsideHealth

\* -------------------------------------------------- command dispatcher
\* CommandHandler of the older generation
\* (EnvironmentalMonitoringDevice/src/CommandHandler.cpp): begin()
\* subscribes onCommandReceived to "command.received" (line 7-11), so
\* processCommand runs as a handler inside EventBus::publish, which holds
\* the bus mutex while it runs the handlers (EventBus.cpp line 22-27).

CommandIds == {"c1", "c2"}
CommandTypes == {"lights", "spray", "system", "other"}
CommandActions ==
  {"on", "off", "toggle", "schedule", "cycle", "restart", "other"}

\* A payload that deserializeJson rejects.
Malformed == [id |-> "-", type |-> "-", action |-> "-"]

\* The payloads of a command.received event.
Payloads ==
  {Malformed}
    \cup [id : CommandIds, type : CommandTypes, action : CommandActions]

NoCommand == [id |-> "", type |-> "", action |-> ""]

\* A publish call of the dispatcher: an actuator event, or the
\* command.status event of sendStatusConfirmation (line 97-110).
ActuatorEvent(T) == [type |-> T, id |-> "-", status |-> "-"]
StatusEvent(c, st) == [type |-> "command.status", id |-> c.id, status |-> st]

\* handleLightsCommand, line 48-68.
LightsPublishes(c) ==
  IF c.action \in {"on", "off"}
    THEN <<ActuatorEvent("actuator.relay.set"), StatusEvent(c, "completed")>>
  ELSE IF c.action = "toggle"
    THEN <<ActuatorEvent("actuator.relay.toggle"),
           StatusEvent(c, "completed")>>
  ELSE IF c.action = "schedule" THEN <<StatusEvent(c, "pending")>>
  ELSE <<StatusEvent(c, "error")>>

\* handleSprayCommand, line 70-85.
SprayPublishes(c) ==
  IF c.action = "on"
    THEN <<ActuatorEvent("actuator.spray.start"),
           StatusEvent(c, "completed")>>
  ELSE IF c.action = "off"
    THEN <<ActuatorEvent("actuator.spray.stop"),
           StatusEvent(c, "completed")>>
  ELSE IF c.action = "cycle"
    THEN <<ActuatorEvent("actuator.nozzle.activate"),
           StatusEvent(c, "completed")>>
  ELSE <<StatusEvent(c, "error")>>

\* handleSystemCommand, line 87-95.
SystemPublishes(c) ==
  IF c.action = "restart" THEN <<StatusEvent(c, "completed")>>
  ELSE <<StatusEvent(c, "error")>>

\* The publish calls of processCommand, in order (line 13-46): none for
\* a payload that does not parse.
PublishesOf(c) ==
  IF c = Malformed THEN <<>>
  ELSE IF c.type = "lights" THEN LightsPublishes(c)
  ELSE IF c.type = "spray" THEN SprayPublishes(c)
  ELSE IF c.type = "system" THEN SystemPublishes(c)
  ELSE <<StatusEvent(c, "error")>>

InitCmd ==
  /\ cmd = NoCommand
  /\ dpc = "idle"
  /\ cmdHeld = FALSE
  /\ cmdTodo = <<>>
  /\ cmdCalls = <<>>
  /\ cmdEvents = <<>>

\* publish("command.received", payload): the bus takes its mutex and
\* calls onCommandReceived (line 112-114), which parses the payload.
CmdReceive(payload) ==
  /\ dpc \in {"idle", "done"}
  /\ cmd' = payload
  /\ dpc' = "dispatch"
  /\ cmdHeld' = TRUE
  /\ cmdTodo' = PublishesOf(payload)
  /\ cmdCalls' = <<>>
  /\ cmdEvents' = <<>>
  /\ UNCHANGED outsideCmd

\* The next eventBus.publish of processCommand.  The mutex is held by
\* the calling task itself and is not recursive: the older bus waits for
\* it with portMAX_DELAY (EventBus.cpp line 23) and never returns; the
\* core bus (core/EventBus.cpp line 52, 69-71) gives up after 1000 ms,
\* logs the timeout and returns without calling a handler, and
\* processCommand goes on.
CmdPublish ==
  /\ dpc = "dispatch"
  /\ cmdTodo # <<>>
  /\ cmdCalls' = Append(cmdCalls, Head(cmdTodo))
  /\ IF cmdHeld
       THEN IF impl = "legacy"
              THEN dpc' = "blocked" /\ UNCHANGED <<cmdTodo, cmdEvents>>
              ELSE /\ cmdTodo' = Tail(cmdTodo)
                   /\ UNCHANGED <<dpc, cmdEvents>>
       ELSE /\ cmdEvents' = Append(cmdEvents, Head(cmdTodo))
            /\ cmdTodo' = Tail(cmdTodo)
            /\ UNCHANGED dpc
  /\ UNCHANGED <<cmd, cmdHeld>>
  /\ UNCHANGED outsideCmd

\* processCommand and the handler return; publish gives the mutex.
CmdReturn ==
  /\ dpc = "dispatch"
  /\ cmdTodo = <<>>
  /\ dpc' = "done"
  /\ cmdHeld' = FALSE
  /\ UNCHANGED <<cmd, cmdTodo, cmdCalls, cmdEvents>>
  /\ UNCHANGED outsideCmd

\* ------------------------------------------------- health check period
\* SystemMonitor::update (Managers.cpp line 367-376) against the clock.

MaxInterval == 3

\* After the constructor (Managers.h line 143-144), at power-on.
InitMon ==
  /\ mclock = 0
  /\ lastHealthCheck = 0
  /\ healthCheckInterval \in 1..MaxInterval
  /\ sinceCheck = 0
  /\ mcheck = "none"

\* The monitor left unused.
MonIdle ==
  /\ mclock = 0 /\ lastHealthCheck = 0 /\ healthCheckInterval = 1
  /\ sinceCheck = 0 /\ mcheck = "none"

\* The time since the previous check is counted up to here.
SinceCap == Modulus + MaxInterval

\* One millisecond passes.
MonTick ==
  /\ mclock' = (mclock + 1) % Modulus
  /\ sinceCheck' = IF sinceCheck < SinceCap THEN sinceCheck + 1
                   ELSE sinceCheck
  /\ mcheck' = "none"
  /\ UNCHANGED <<lastHealthCheck, healthCheckInterval>>
  /\ UNCHANGED outsideMon

\* setHealthCheckInterval (Managers.h line 152-154).
SetHealthCheckInterval(intervalMs) ==
  /\ healthCheckInterval' = intervalMs
  /\ mcheck' = "none"
  /\ UNCHANGED <<mclock, lastHealthCheck, sinceCheck>>
  /\ UNCHANGED outsideMon

\* Mutation of SinceLastCheck: the distance of the two counter values.
SinceLastCheckAbs(n, l) == IF n >= l THEN n - l ELSE l - n

\* currentTime - lastHealthCheck in unsigned arithmetic (line 370).
SinceLastCheck(n, l) == (n - l) % Modulus

\* update(), line 367-376.
MonUpdate ==
  /\ IF SinceLastCheck(mclock, lastHealthCheck) >= healthCheckInterval
       THEN /\ lastHealthCheck' = mclock
            /\ sinceCheck' = 0
            /\ mcheck' = "check"
       ELSE /\ mcheck' = "skip"
            /\ UNCHANGED <<lastHealthCheck, sinceCheck>>
  /\ UNCHANGED <<mclock, healthCheckInterval>>
  /\ UNCHANGED outsideMon

\* ------------------------------------------- sensor reconfiguration
\* SensorManager of src/sensors/SensorManager.cpp: begin (line 8-40),
\* subscribeToEvents (line 55-61), reconfigure (line 154-163), on the core
\* bus.

MaxSmCalls == 4

\* After the constructor (line 6): nothing subscribed, no sensor.
InitSm ==
  /\ smHandlers = 0
  /\ smSensors = 0
  /\ smCalls = 0
  /\ smLast = [op |-> "none", n |-> 0]

\* begin(): subscribeToEvents() first, whatever was subscribed before,
\* then one sensor pushed for every enabled descriptor that comes up.  The
\* subscribe adds a handler when it gets the bus mutex (core/EventBus.cpp
\* line 25-35).
BeginAdds(gotMutex) == IF gotMutex THEN 1 ELSE 0

\* begin() called by setup() or by another caller.
SmBegin ==
  /\ smCalls < MaxSmCalls
  /\ \E gotMutex \in BOOLEAN, up \in 0..MaxSensors :
       /\ smHandlers' = smHandlers + BeginAdds(gotMutex)
       /\ smSensors' = smSensors + up
  /\ smCalls' = smCalls + 1
  /\ smLast' = [op |-> "begin", n |-> 0]
  /\ UNCHANGED outsideSm

\* reconfigure() called from outside a dispatch: clear, then begin().
SmReconfigure ==
  /\ smCalls < MaxSmCalls
  /\ \E gotMutex \in BOOLEAN, up \in 0..MaxSensors :
       /\ smHandlers' = smHandlers + BeginAdds(gotMutex)
       /\ smSensors' = up
  /\ smCalls' = smCalls + 1
  /\ smLast' = [op |-> "reconfigure", n |-> 1]
  /\ UNCHANGED outsideSm

\* publish("config.sensors.changed"): the bus calls every subscribed
\* handler, each runs reconfigure().  Their subscribe is made inside the
\* dispatch, by the task that holds the bus mutex: it times out and adds
\* nothing.
SmConfigChanged ==
  /\ smHandlers > 0
  /\ \E up \in 0..MaxSensors : smSensors' = up
  /\ smLast' = [op |-> "event", n |-> smHandlers]
  /\ UNCHANGED <<smHandlers, smCalls>>
  /\ UNCHANGED outsideSm

\* ------------------------------------------------------ relay actuator
\* RelayActuator of device/EnvironmentalDevice.cpp line 322-386, one relay
\* on a pin of its own.

MaxRelayEvents == 3

NoRelayCall == [op |-> "none", res |-> FALSE, wasActive |-> FALSE]

\* After the constructor (EnvironmentalDevice.h line 156-159, BaseClasses.h
\* line 115-116): the logic comes from the descriptor, the pin has not been
\* written and is at either level.
InitRelay ==
  /\ relayInvert \in BOOLEAN
  /\ relayPinHigh \in BOOLEAN
  /\ relayInitialized = FALSE
  /\ currentState = FALSE
  /\ pulsing = FALSE
  /\ begun = FALSE
  /\ rret = NoRelayCall
  /\ relayEvents = <<>>

\* The relay out of the picture.
RelayIdle ==
  /\ relayInvert = FALSE /\ relayPinHigh = FALSE /\ relayInitialized = FALSE
  /\ currentState = FALSE /\ pulsing = FALSE /\ begun = FALSE
  /\ rret = NoRelayCall /\ relayEvents = <<>>

\* Mutation of ActiveLevel: HIGH whatever the logic.
ActiveLevelHigh(invert) == TRUE

\* The level activate() writes (line 341): LOW with inverted logic.
ActiveLevel(invert) == ~invert

\* begin(), line 323-336.
RelayBegin ==
  /\ relayPinHigh' = InactiveLevel(relayInvert)
  /\ currentState' = FALSE
  /\ relayInitialized' = TRUE
  /\ begun' = TRUE
  /\ rret' = [op |-> "begin", res |-> TRUE, wasActive |-> currentState]
  /\ UNCHANGED <<relayInvert, pulsing, relayEvents>>
  /\ UNCHANGED outsideRelay

\* The body of activate(), line 338-352, for the call named op.  The calls
\* are followed until the relay has published MaxRelayEvents events.
ActivateAs(op) ==
  /\ Len(relayEvents) < MaxRelayEvents
  /\ IF ~relayInitialized
       THEN /\ rret' = [op |-> op, res |-> FALSE, wasActive |-> currentState]
            /\ UNCHANGED <<relayPinHigh, currentState, relayEvents>>
       ELSE /\ relayPinHigh' = ActiveLevel(relayInvert)
            /\ currentState' = TRUE
            /\ relayEvents' = Append(relayEvents, "actuator.activated")
            /\ rret' = [op |-> op, res |-> TRUE, wasActive |-> currentState]
  /\ UNCHANGED <<relayInvert, relayInitialized, begun>>

\* The body of deactivate(), line 354-370, for the call named op.
DeactivateAs(op) ==
  /\ Len(relayEvents) < MaxRelayEvents
  /\ IF ~relayInitialized
       THEN /\ rret' = [op |-> op, res |-> FALSE, wasActive |-> currentState]
            /\ UNCHANGED <<relayPinHigh, currentState, relayEvents>>
       ELSE /\ relayPinHigh' = InactiveLevel(relayInvert)
            /\ currentState' = FALSE
            /\ relayEvents' = Append(relayEvents, "actuator.deactivated")
            /\ rret' = [op |-> op, res |-> TRUE, wasActive |-> currentState]
  /\ UNCHANGED <<relayInvert, relayInitialized, begun>>

\* activate().
RelayActivate ==
  /\ ActivateAs("activate")
  /\ UNCHANGED pulsing
  /\ UNCHANGED outsideRelay

\* deactivate().
RelayDeactivate ==
  /\ DeactivateAs("deactivate")
  /\ UNCHANGED pulsing
  /\ UNCHANGED outsideRelay

\* shutdown(), line 372-378: deactivate() when active, then
\* initialized = false.
RelayShutdown ==
  /\ Len(relayEvents) < MaxRelayEvents
  /\ IF currentState /\ relayInitialized
       THEN /\ relayPinHigh' = InactiveLevel(relayInvert)
            /\ currentState' = FALSE
            /\ relayEvents' = Append(relayEvents, "actuator.deactivated")
       ELSE UNCHANGED <<relayPinHigh, currentState, relayEvents>>
  /\ relayInitialized' = FALSE
  /\ rret' = [op |-> "shutdown", res |-> TRUE, wasActive |-> currentState]
  /\ UNCHANGED <<relayInvert, pulsing, begun>>
  /\ UNCHANGED outsideRelay

\* pulse(), line 380-386, up to its delay: activate(), and return false
\* when that fails.
RelayPulseStart ==
  /\ ~pulsing
  /\ ActivateAs("pulse")
  /\ pulsing' = relayInitialized
  /\ UNCHANGED outsideRelay

\* pulse() after its delay: return deactivate().
RelayPulseEnd ==
  /\ pulsing
  /\ DeactivateAs("pulse")
  /\ pulsing' = FALSE
  /\ UNCHANGED outsideRelay

\* --------------------------------------------------------- specifications
vars ==
  <<busVars, nozzleVars, mgrVars, sensorVars, timerVars, bootVars, healthVars,
    cmdVars, extraVars>>

\* The components added last, unused.
ExtraIdle == MonIdle /\ killed = {} /\ InitSm /\ RelayIdle

\* All the other components, unused.
CoreIdle ==
  /\ InitBus /\ impl = "core" /\ NozzleReady(1, 1, 1) /\ MgrIdle
  /\ SensorIdle /\ TimerIdle /\ BootIdle /\ InitHealth /\ InitCmd

\* The bus before any task has used it, with the nozzle constructed.
Init ==
  /\ InitBus /\ NozzleReady(1, 1, 1) /\ MgrIdle /\ SensorIdle /\ TimerIdle
  /\ BootIdle /\ InitHealth /\ InitCmd /\ ExtraIdle

NextBus ==
  \/ \E t \in BusTasks, T \in EventTypes : PublishCall(t, T)
  \/ \E t \in BusTasks, T \in EventTypes, h \in Handlers : SubscribeCall(t, T, h)
  \/ \E t \in BusTasks, T \in EventTypes : UnsubscribeCall(t, T)
  \/ \E t \in BusTasks : TakeMutex(t)
  \/ \E t \in BusTasks : TakeTimeout(t)
  \/ \E t \in BusTasks : SubscribePush(t)
  \/ \E t \in BusTasks : SubscribePrint(t)
  \/ \E t \in BusTasks : UnsubscribeErase(t)
  \/ \E t \in BusTasks : InvokeHandler(t)
  \/ \E t \in BusTasks : HandlerReturn(t)
  \/ \E t \in BusTasks : HandlerPublish(t)
  \/ \E t \in BusTasks : HandlerThrow(t)
  \/ \E t \in BusTasks : PublishReturn(t)

Spec == Init /\ [][NextBus]_vars

SpecBus == Spec

\* A step of bus task t.
BusStep(t) ==
  \/ \E T \in EventTypes : PublishCall(t, T)
  \/ \E T \in EventTypes, h \in Handlers : SubscribeCall(t, T, h)
  \/ \E T \in EventTypes : UnsubscribeCall(t, T)
  \/ TakeMutex(t)
  \/ TakeTimeout(t)
  \/ SubscribePush(t)
  \/ SubscribePrint(t)
  \/ UnsubscribeErase(t)
  \/ InvokeHandler(t)
  \/ HandlerReturn(t)
  \/ HandlerPublish(t)
  \/ HandlerThrow(t)
  \/ PublishReturn(t)

\* The bus used by tasks that other tasks can delete.
NextBusKill ==
  \/ \E t \in BusTasks \ killed : BusStep(t)
  \/ \E t \in BusTasks : DeleteTask(t)

SpecBusKill == Init /\ [][NextBusKill]_vars

\* Every task that is ready to run is eventually run by the scheduler.
SpecBusFair == SpecBus /\ \A t \in BusTasks : WF_vars(BusStep(t))

\* The nozzle with its controlling task and its spray tasks, on the core bus.
InitNozzleSpec ==
  /\ InitNozzle /\ InitBus /\ impl = "core" /\ MgrIdle /\ SensorIdle
  /\ TimerIdle /\ BootIdle /\ InitHealth /\ InitCmd /\ ExtraIdle

NextNozzle ==
  \/ StartSprayCycle
  \/ StartRejected
  \/ StopTest
  \/ StopDelete
  \/ StopCloseAir
  \/ StopCloseNutrient
  \/ StopSetIdle
  \/ \E t \in SprayTasks : SprayPressurizing(t)
  \/ \E t \in SprayTasks : SprayOpenAir(t)
  \/ \E t \in SprayTasks : SprayPublishAirOpen(t)
  \/ \E t \in SprayTasks : SpraySpraying(t)
  \/ \E t \in SprayTasks : SprayOpenNutrient(t)
  \/ \E t \in SprayTasks : SprayPublishNutrientOpen(t)
  \/ \E t \in SprayTasks : SprayCloseNutrient(t)
  \/ \E t \in SprayTasks : SprayPublishNutrientClose(t)
  \/ \E t \in SprayTasks : SprayPurging(t)
  \/ \E t \in SprayTasks : SprayCloseAir(t)
  \/ \E t \in SprayTasks : SprayIdle(t)
  \/ \E t \in SprayTasks : SprayPublishAirClose(t)
  \/ \E t \in SprayTasks : SprayClearHandle(t)
  \/ \E t \in SprayTasks : SprayExit(t)
  \/ Tick

SpecNozzle == InitNozzleSpec /\ [][NextNozzle]_vars

\* The actuator manager driven through its public operations, one call at
\* a time.
InitMgrSpec ==
  /\ InitMgr /\ InitBus /\ impl = "core" /\ NozzleReady(1, 1, 1)
  /\ SensorIdle /\ TimerIdle /\ BootIdle /\ InitHealth /\ InitCmd /\ ExtraIdle

NextMgr ==
  \/ MgrBegin
  \/ \E i \in Pins : AddActuator(i)
  \/ \E n \in Names : ActivateActuator(n)
  \/ \E n \in Names : DeactivateActuator(n)
  \/ MgrUpdate
  \/ EmergencyStopAll
  \/ MgrShutdown

SpecMgr == InitMgrSpec /\ [][NextMgr]_vars

\* The sensor polling task with the task that starts and stops it, while
\* the devices fail and recover.
InitSensorSpec ==
  /\ InitSensor /\ InitBus /\ impl = "core" /\ NozzleReady(1, 1, 1)
  /\ MgrIdle /\ TimerIdle /\ BootIdle /\ InitHealth /\ InitCmd /\ ExtraIdle

NextSensor ==
  \/ \E i \in SensorIds : HwChange(i)
  \/ LegacyBeginCreate
  \/ LegacyBeginRun
  \/ CoreBeginCreate
  \/ CoreBeginReady
  \/ TaskTest
  \/ TaskPoll
  \/ TaskDelay
  \/ LegacyStopFlag
  \/ LegacyStopDelete
  \/ CoreShutdownState
  \/ CoreShutdownDelete
  \/ GetAllReadingsCall
  \/ GetAllReadingsReturn

SpecSensor == InitSensorSpec /\ [][NextSensor]_vars

\* The scheduler runs the polling task whenever it can take a step.
SpecSensorFair ==
  SpecSensor /\ WF_vars(TaskTest) /\ WF_vars(TaskPoll) /\ WF_vars(TaskDelay)

\* The timed spray of one nozzle driver with its callers and the clock.
InitTimerSpec ==
  /\ InitTimer /\ InitBus /\ impl = "core" /\ NozzleReady(1, 1, 1)
  /\ MgrIdle /\ SensorIdle /\ BootIdle /\ InitHealth /\ InitCmd /\ ExtraIdle

NextTimer ==
  \/ MillisTick
  \/ \E durationMs \in 0..MaxDuration : NozzleStartSpray(durationMs)
  \/ NozzleStopSpray
  \/ NozzleUpdate

SpecTimer == InitTimerSpec /\ [][NextTimer]_vars

\* Time passes, and the main loop keeps calling update().
SpecTimerFair == SpecTimer /\ WF_vars(MillisTick) /\ WF_vars(NozzleUpdate)

\* The startup from power-on.
InitBootSpec ==
  /\ InitBoot /\ InitBus /\ impl = "core" /\ NozzleReady(1, 1, 1)
  /\ MgrIdle /\ SensorIdle /\ TimerIdle /\ InitHealth /\ InitCmd /\ ExtraIdle

NextBoot ==
  \/ BootCore
  \/ BootSensorLoop
  \/ BootSensorsDone
  \/ BootActuators
  \/ BootComm
  \/ BootTasks

SpecBoot == InitBootSpec /\ [][NextBoot]_vars

\* Polling cycles and health checks.
InitHealthSpec ==
  /\ InitHealth /\ InitBus /\ impl = "core" /\ NozzleReady(1, 1, 1)
  /\ MgrIdle /\ SensorIdle /\ TimerIdle /\ BootIdle /\ InitCmd /\ ExtraIdle

NextHealth ==
  \/ PollCycle
  \/ HealthCheck

SpecHealth == InitHealthSpec /\ [][NextHealth]_vars

\* The command dispatcher on the bus.
InitCmdSpec ==
  /\ InitCmd /\ InitBus /\ NozzleReady(1, 1, 1)
  /\ MgrIdle /\ SensorIdle /\ TimerIdle /\ BootIdle /\ InitHealth
  /\ ExtraIdle

NextCmd ==
  \/ \E payload \in Payloads : CmdReceive(payload)
  \/ CmdPublish
  \/ CmdReturn

SpecCmd == InitCmdSpec /\ [][NextCmd]_vars

\* The health check period.
InitMonSpec == InitMon /\ CoreIdle /\ killed = {} /\ InitSm /\ RelayIdle

NextMon ==
  \/ MonTick
  \/ \E intervalMs \in 1..MaxInterval : SetHealthCheckInterval(intervalMs)
  \/ MonUpdate

SpecMon == InitMonSpec /\ [][NextMon]_vars

\* The sensor manager and its configuration events.
InitSmSpec == InitSm /\ CoreIdle /\ MonIdle /\ killed = {} /\ RelayIdle

NextSm ==
  \/ SmBegin
  \/ SmReconfigure
  \/ SmConfigChanged

SpecSm == InitSmSpec /\ [][NextSm]_vars

\* One relay and the calls of its owner; the calls made while a pulse is
\* in its delay come from another task.
InitRelaySpec == InitRelay /\ CoreIdle /\ MonIdle /\ killed = {} /\ InitSm

NextRelay ==
  \/ RelayBegin
  \/ RelayActivate
  \/ RelayDeactivate
  \/ RelayShutdown
  \/ RelayPulseStart
  \/ RelayPulseEnd

SpecRelay == InitRelaySpec /\ [][NextRelay]_vars

\* ---------------------------------------------------------------- claims

C2_Chaining ==
  /\ (last.op = "publish" /\ last.depth > 1) =>
        (last.status = "done" /\ last.inv = last.subs)
  /\ \A t \in BusTasks :
        ~(/\ Len(stack[t]) > 1 /\ Top(t).ph = "take"
          /\ mutex = t /\ ~TakeTimeoutEnabled(t))

\* C3.  A top-level publish that ran while another task was publishing a
\* different type returns normally having invoked every handler of its type
\* exactly once.
C3_ConcurrentPublish ==
  (last.op = "publish" /\ last.depth = 1 /\ last.overlap) =>
     /\ last.status = "done"
     /\ last.inv = last.subs
     /\ last.nret = Len(last.subs)

\* C4.  A publish or subscribe that finds the mutex held by another task
\* returns after a bounded wait (as long as the firmware is running); a subscribe that timed out returned false
\* and left the table as it was, a publish that timed out invoked nothing.
C4_BoundedWait ==
  /\ \A t \in BusTasks :
        (InCall(t) /\ Top(t).ph = "take" /\ mutex \notin {None, t})
           ~> (~InCall(t) \/ Top(t).ph # "take" \/ halted)
  /\ [](last.status = "timeout" =>
          /\ last.inv = <<>>
          /\ last.op = "subscribe" => last.ret = "false")
  /\ [][(last' # last /\ last'.status = "timeout")
          => subscribers' = subscribers]_vars

\* C5.  A publish during which a handler raised still invokes every handler
\* subscribed to the type and returns normally.
C5_HandlerFault ==
  (last.op = "publish" /\ last.raised) =>
     /\ last.status = "done"
     /\ last.inv = last.subs

\* C6.  At most one spray-sequence task exists at any time.
C6_SingleSequenceTask == Cardinality(LiveTasks) <= 1

\* C7.  A startSprayCycle() call made while the state is PRESSURIZING,
\* SPRAYING or PURGING changes nothing: state, outputs, spray tasks, task
\* handle, published events and sleeping tasks are as before the call.
C7_StartRejectedNoOp ==
  [][(lastCall'.op = "start" /\ state # "IDLE") =>
        UNCHANGED <<state, airState, nutrientState, taskHandle, tpc, slept,
                    events, cpc, ch, crashed, pressurizeDelay, sprayDuration,
                    purgeDelay>>]_vars

\* startSprayCycle() has just been rejected in PURGING, the cycle running.
C7_Witness ==
  /\ lastCall.op = "start" /\ lastCall.res = "PURGING" /\ state = "PURGING"
  /\ airState /\ LiveTasks # {}

\* C8.  Whenever stopSpray() returns, the first call as well as a second one
\* in a row, the state is IDLE and both outputs are off.
C8_StopIdempotent ==
  lastCall.op = "stop" => lastCall.snap = <<"IDLE", FALSE, FALSE>>

\* C9.  From the return of stopSpray() until the next startSprayCycle() the
\* state is IDLE and both outputs are off.
C9_StopPreempts ==
  stopped => (state = "IDLE" /\ ~airState /\ ~nutrientState)

EventNames(t) == [i \in 1..Len(events[t]) |-> events[t][i].name]

\* The state a spray task has set last, by its position in sprayTask().
StageAt(pc) ==
  CASE pc \in {"s85", "s88", "d92"} -> "PRESSURIZING"
    [] pc \in {"s96", "s98", "d102", "s107", "s111"} -> "SPRAYING"
    [] pc \in {"d112", "s116"} -> "PURGING"
    [] OTHER -> "IDLE"

\* C10.  A spray cycle during which nobody else writes the nozzle (no
\* stopSpray(), no other spray task) takes the state through PRESSURIZING,
\* SPRAYING, PURGING and IDLE in that order, publishes air.open,
\* nutrient.open, nutrient.close, air.close in that order and nothing else,
\* spends at least pressurizeDelay, sprayDuration and purgeDelay ticks in
\* vTaskDelay between consecutive events, and ends in IDLE with both outputs
\* off.
C10_FullCycle ==
  \A t \in SprayTasks :
    (clean[t] /\ tpc[t] \notin {"none", "deleted"}) =>
       /\ Live(t) => state = StageAt(tpc[t])
       /\ tpc[t] \in {"s118", "s124", "s125"} =>
             Snapshot = <<"IDLE", FALSE, FALSE>>
       /\ EventNames(t) =
            SubSeq(<<AirOpen, NutrientOpen, NutrientClose, AirClose>>,
                   1, Len(events[t]))
       /\ Len(events[t]) =
            CASE tpc[t] \in {"s84", "s85", "s88"} -> 0
              [] tpc[t] \in {"d92", "s96", "s98"} -> 1
              [] tpc[t] \in {"d102", "s107"} -> 2
              [] tpc[t] \in {"s111", "d112", "s116", "s118"} -> 3
              [] OTHER -> 4
       /\ Len(events[t]) >= 2 => events[t][2].waited >= pressurizeDelay
       /\ Len(events[t]) >= 3 => events[t][3].waited >= sprayDuration
       /\ Len(events[t]) >= 4 => events[t][4].waited >= purgeDelay

\* A cycle ran to its end undisturbed and has waited in each of its stages.
C10_Witness ==
  \E t \in SprayTasks :
    /\ tpc[t] = "done" /\ clean[t]
    /\ Len(events[t]) = 4
    /\ \A i \in 2..4 : events[t][i].waited >= 1
    /\ Snapshot = <<"IDLE", FALSE, FALSE>>

\* The value of its output that an event of the spray task announces.
Announces(name) == name \in {AirOpen, NutrientOpen}

\* C11.  Whenever a subscriber handles an air/nutrient open or close event
\* of the nozzle, the output already has the value the event announces.
C11_PublishAfterWrite ==
  \A t \in SprayTasks : \A i \in 1..Len(events[t]) :
     events[t][i].pin = Announces(events[t][i].name)

\* C12.  A stopSpray() called in a non-IDLE state returns with the state
\* IDLE and both outputs off, and has published an event announcing the stop.
C12_StopPublishes ==
  (lastCall.op = "stop" /\ lastCall.res # "IDLE") =>
     /\ lastCall.snap = <<"IDLE", FALSE, FALSE>>
     /\ lastCall.pub # <<>>

\* C13.  When emergencyStopAll() or shutdown() of the actuator manager
\* returns, no output of a registered actuator is energized: relay pins are
\* at their inactive level, LEDC duty is 0, nozzle pins are LOW.
C13_SafeAfterStop ==
  mret.op \in {"emergencyStopAll", "shutdown"} => mret.energized = {}

\* A stop has returned that found an inverted relay, a PWM output and a
\* nozzle energized.
C13_Witness ==
  /\ mret.op \in {"emergencyStopAll", "shutdown"}
  /\ mret.energized = {}
  /\ \E i \in mret.wasOn :
       actuatorConfigs[i].type = "Relay" /\ actuatorConfigs[i].invertLogic
  /\ \E i \in mret.wasOn : actuatorConfigs[i].type # "Relay"

\* The descriptor added by the addActuator call that has just returned
\* carries the name of a driver that was registered before the call.
DuplicateAdded ==
  /\ mret'.op = "add"
  /\ \E k \in 1..Len(actuators) :
       actuatorConfigs[actuators[k].cfg].name =
         actuatorConfigs[mret'.arg].name

\* C14.  addActuator with a descriptor whose name is the name of a
\* registered device returns failure and leaves the registry as it was.
C14_DuplicateRejected ==
  [][DuplicateAdded => (mret'.res = FALSE /\ actuators' = actuators)]_vars

\* The places of the configuration begin() has to register: enabled, of a
\* type the manager has a driver for, and the driver's begin() succeeded.
ToRegister ==
  {i \in 1..Len(actuatorConfigs) :
     /\ actuatorConfigs[i].enabled
     /\ actuatorConfigs[i].type \in
          (IF mgr = "core" THEN {"Relay", "PWMOutput", "VenturiNozzle"}
           ELSE {"Relay", "VenturiNozzle"})
     /\ mret.ok[i]}

\* The places of the configuration begin() has registered, in registry
\* order.
Registered ==
  [k \in 1..(Len(actuators) - mret.arg) |-> actuators[mret.arg + k].cfg]

\* C15.  begin() registers exactly the enabled descriptors of a known type
\* whose driver begin() succeeds, in configuration order; the other
\* descriptors are skipped and stop nothing.
C15_BeginRegisters ==
  mret.op = "begin" =>
     /\ {Registered[k] : k \in 1..Len(Registered)} = ToRegister
     /\ Len(Registered) = Cardinality(ToRegister)
     /\ \A j, k \in 1..Len(Registered) : j < k => Registered[j] < Registered[k]

\* begin() has skipped a first descriptor of unknown type, or one whose
\* driver failed, and has registered the second one.
C15_Witness ==
  /\ mret.op = "begin" /\ Len(actuatorConfigs) = 2
  /\ actuatorConfigs[1].enabled
  /\ (actuatorConfigs[1].type = "Unknown" \/ ~mret.ok[1])
  /\ Len(actuators) = 1 /\ actuators[1].cfg = 2

\* Task t is at a statement that reads or writes the subscriber table: the
\* body between take and give (lookup, push_back, erase, the dispatch loop
\* over the entry), or the size() read of subscribe's printf (line 29-30).
TableAccess(t) ==
  \E i \in 1..Len(stack[t]) :
     stack[t][i].ph \in {"locked", "in", "inret", "print"}

\* C18.  Every read or write of the subscriber table is executed by a task
\* that holds the bus mutex.
C18_TableUnderMutex ==
  \A t \in BusTasks : TableAccess(t) => mutex = t

\* C16.  A sensor read that fails validation yields a reading marked
\* invalid and leaves the sensor not ready, and a sensor that is not ready
\* becomes ready only by a begin() on it that succeeds.
C16_FailedReadNotReady ==
  [][/\ (sret'.op = "read" /\ sret'.failed) =>
          (~sret'.valid /\ ~initialized'[sret'.sensor])
     /\ \A i \in SensorIds :
          (~initialized[i] /\ initialized'[i]) =>
             \/ sret'.op = "beginAll"
             \/ sret'.op = "begin" /\ sret'.sensor = i /\ sret'.valid]_vars

\* Sensor i is registered.
IsRegistered(i) == \E k \in 1..Len(sensors) : sensors[k] = i

\* The polling task is in its loop and its cycles poll the sensors.
Polling ==
  /\ TaskLive
  /\ sgen = "legacy" => running
  /\ sgen = "core" => sensorState = "READY"

C19_RegistryExclusive == ~(spc = "poll" /\ cpos = "copy")

\* C20.  The polling task leaves its loop only by finding the running flag
\* false at the head of a cycle: stop() and shutdown() never delete a task
\* that is in its loop.
C20_CooperativeStop ==
  sret.op = "kill" => sret.at \notin {"test", "poll", "delay"}

\* The core sensor task is inside readAllSensors.
InReadAllSensors == sgen = "core" /\ spc = "poll"

\* C30 (as stated).  The sensor task is inside readAllSensors only while
\* the sensor manager is in state READY.
C30_ReadsOnlyInReady == InReadAllSensors => sensorState = "READY"

\* C30 (amended).  The sensor task enters readAllSensors only when the
\* manager is READY, so never before begin() has registered the sensors;
\* while it is inside, the registry is not torn down: every registered
\* sensor is still initialized, and the state is READY or, from the first
\* statement of shutdown() to its vTaskDelete, SHUTDOWN.
C30_EntersOnlyWhenReady ==
  [][/\ (InReadAllSensors' /\ ~InReadAllSensors) =>
          (sensorState = "READY" /\ cpos # "begin")
     /\ InReadAllSensors' =>
          /\ sensorState' \in {"READY", "SHUTDOWN"}
          /\ sensors' # <<>>
          /\ \A k \in 1..Len(sensors') : initialized'[sensors'[k]]]_vars

\* shutdown() has set SHUTDOWN while the sensor task is inside
\* readAllSensors, which it entered when the state was READY.
C30_Witness ==
  InReadAllSensors /\ sensorState = "SHUTDOWN" /\ cpos = "shutdown"

\* Handler h is subscribed under type T in table tab.
SubscribedUnder(tab, T, h) ==
  tab[T] # Absent /\ \E j \in 1..Len(tab[T]) : tab[T][j] = h

\* Every handler that publish call f has invoked is subscribed under the
\* type of f in table tab.
OnlyOwnType(tab, f) ==
  f.op = "publish" =>
     \A k \in 1..Len(f.inv) : SubscribedUnder(tab, f.type, f.inv[k])

\* C26.  A publish of type T invokes only handlers subscribed under exactly
\* T; a publish of a type with no subscribers invokes nothing and returns
\* normally; no step of a publish changes the subscriber table.
C26_OnlyOwnType ==
  [][/\ \A t \in BusTasks : \A i \in 1..Len(stack'[t]) :
          OnlyOwnType(subscribers', stack'[t][i])
     /\ OnlyOwnType(subscribers', last')
     /\ (/\ last'.op = "publish"
         /\ subscribers'[last'.type] \in {Absent, <<>>}) =>
           (last'.inv = <<>> /\ last'.ret = "void" /\ ~halted')
     /\ subscribers' # subscribers =>
           \E t \in BusTasks :
              /\ InCall(t) /\ Top(t).op \in {"subscribe", "unsubscribe"}
              /\ stack'[t] # stack[t]]_vars

\* A publish has returned after invoking the handler of its type while a
\* handler subscribed under the other type only was left alone.
C26_Witness ==
  /\ last.op = "publish" /\ last.status = "done" /\ last.inv # <<>>
  /\ \E T \in EventTypes \ {last.type} : \E h \in Handlers :
        /\ SubscribedUnder(subscribers, T, h)
        /\ ~SubscribedUnder(subscribers, last.type, h)

\* C27 (as stated).  An unsubscribe(T) that has returned has left no
\* handler registered for T and has left the other types alone; when T had
\* no handler it returned false and changed nothing.
C27_UnsubscribeRemoves ==
  [][last'.op = "unsubscribe" =>
       /\ SubscriberCount(subscribers', last'.type) = 0
       /\ \A T \in EventTypes \ {last'.type} :
             subscribers'[T] = subscribers[T]
       /\ SubscriberCount(subscribers, last'.type) = 0 =>
             (last'.ret = "false" /\ subscribers' = subscribers)]_vars

\* C27 (amended).  An unsubscribe(T) that obtained the mutex and found an
\* entry for T erases that entry, whole, and no other, and returns true:
\* getSubscriberCount(T) is then 0.  One that found no entry, or whose wait
\* for the mutex ran out, returns false and changes nothing.
C27_UnsubscribeErases ==
  [][last'.op = "unsubscribe" =>
       /\ last'.ret \in {"true", "false"}
       /\ last'.ret = "true" <=>
             (last'.status = "done" /\ subscribers[last'.type] # Absent)
       /\ last'.ret = "true" =>
             /\ subscribers'[last'.type] = Absent
             /\ SubscriberCount(subscribers', last'.type) = 0
             /\ \A T \in EventTypes \ {last'.type} :
                   subscribers'[T] = subscribers[T]
       /\ last'.ret = "false" => subscribers' = subscribers]_vars

\* An unsubscribe has erased the handlers of its type and has returned
\* true while the other type keeps a handler.
C27_Witness ==
  /\ last.op = "unsubscribe" /\ last.ret = "true"
  /\ subscribers[last.type] = Absent
  /\ \E T \in EventTypes \ {last.type} :
        SubscriberCount(subscribers, T) > 0

\* The places of the registry whose driver is registered under name n.
NamedBy(n) ==
  {k \in 1..Len(actuators) : actuatorConfigs[actuators[k].cfg].name = n}

\* C28.  activateActuator(name) and deactivateActuator(name) leave the
\* state and the output of every actuator registered under another name as
\* they were; for a name that is not registered they return false and
\* change nothing.
C28_OnlyNamedActuator ==
  [][\A n \in Names :
       (ActivateActuator(n) \/ DeactivateActuator(n)) =>
          /\ \A k \in (1..Len(actuators)) \ NamedBy(n) :
                /\ actuators'[k] = actuators[k]
                /\ Energized(hw', actuators[k].cfg)
                     <=> Energized(hw, actuators[k].cfg)
          /\ NamedBy(n) = {} =>
                /\ ~ActivateResult(n) /\ ~DeactivateResult(n)
                /\ actuators' = actuators /\ hw' = hw]_vars

\* C25.  activate() / startSpray() on a nozzle driver that is spraying is
\* rejected: start time and duration stay as they were and no spray-start
\* event is published.
C25_StartRejectedWhileSpraying ==
  [][(vret'.op = "start" /\ sprayActive) =>
        /\ ~vret'.res /\ vret'.pub = "-"
        /\ sprayStartTime' = sprayStartTime
        /\ sprayDurationMs' = sprayDurationMs
        /\ elapsed' = elapsed]_vars

\* C29.  update() switches a spraying nozzle off exactly when at least
\* sprayDurationMs have passed since its start, never earlier; so when no
\* startSpray is made any more and update() keeps being called, the nozzle
\* ends up inactive, its output LOW.
C29_TimedStop ==
  /\ [][vret'.op = "update" =>
          /\ (sprayActive /\ elapsed >= sprayDurationMs) =>
                (~sprayActive' /\ ~nozzlePin' /\ vret'.pub = "off")
          /\ (sprayActive /\ elapsed < sprayDurationMs) =>
                (sprayActive' /\ nozzlePin' /\ vret'.pub = "-")]_vars
  /\ <>[](vret.op # "start") => <>[](~sprayActive /\ ~nozzlePin)

\* update() has switched off a spray whose start time lies before the wrap
\* of the millisecond counter.
C29_Witness ==
  /\ vret.op = "update" /\ vret.pub = "off" /\ ~sprayActive
  /\ now < sprayStartTime /\ sprayDurationMs > 0

\* Some enabled sensor has not come up.
SensorFault == \E i \in SensorIds : bhw[i].enabled /\ ~bhw[i].ok

\* C21.  A startup in which nothing but sensors has failed does not stop:
\* it initializes the actuators, starts the periodic tasks and reaches
\* the running state.
C21_SensorFaultDoesNotHalt ==
  (/\ SensorFault
   /\ bstage \in {"running", "halted"}
   /\ bfail \notin {"core", "task", "comm"})
    => (bstage = "running" /\ bact /\ btasks)

\* A valid reading outside the configured safety limits.
OutsideLimits(r) ==
  /\ r.valid
  /\ \/ r.type = "temperature" /\ r.value > MaxTemperatureC
     \/ r.type = "temperature" /\ r.value < MinTemperatureC
     \/ r.type = "humidity" /\ r.value > MaxHumidityPercent
     \/ r.type = "pressure" /\ r.value > MaxPressurePSI

\* The number of events of type T in a sequence of event types.
CountOf(evs, T) == Cardinality({k \in DOMAIN evs : evs[k] = T})

\* C22.  A polling cycle that produced a reading outside the configured
\* safety limits has published a system error event.
C22_OutOfLimitsRaisesError ==
  (hop = "poll" /\ \E k \in DOMAIN cycleReadings :
                      OutsideLimits(cycleReadings[k]))
    => CountOf(cycleEvents, "system.error") > 0

\* C23.  A health check publishes one system.error event for each sampled
\* metric below its floor (free heap below 10000 bytes, signal below
\* -80 dBm), and none when both are at or above their floors.
C23_ErrorPerMetricBelowFloor ==
  hop = "health" =>
    CountOf(cycleEvents, "system.error") =
      (IF currentMetrics.freeHeap < HeapFloor THEN 1 ELSE 0)
        + (IF currentMetrics.wifiRSSI < SignalFloor THEN 1 ELSE 0)

\* A health check that found both metrics below their floors.
C23_Witness ==
  /\ hop = "health"
  /\ currentMetrics.freeHeap < HeapFloor
  /\ currentMetrics.wifiRSSI < SignalFloor
  /\ CountOf(cycleEvents, "system.error") = 2

\* The command.status events among the dispatched events.
StatusEvents ==
  {k \in DOMAIN cmdEvents : cmdEvents[k].type = "command.status"}

\* C24.  Once the dispatcher has got as far as it gets with a command
\* received on the bus, exactly one command.status event has been
\* published for it, with the command's id and a status of pending,
\* completed or error.
C24_OneStatusPerCommand ==
  dpc \in {"done", "blocked"} =>
    /\ Cardinality(StatusEvents) = 1
    /\ \A k \in StatusEvents :
         /\ cmdEvents[k].id = cmd.id
         /\ cmdEvents[k].status \in {"pending", "completed", "error"}

\* C38.  On the metrics of a health check, isSystemHealthy() is false
\* exactly when checkSystemHealth() has published at least one
\* system.error event.
C38_UnhealthyIffError ==
  hop = "health" =>
    (~IsSystemHealthy(currentMetrics)
       <=> CountOf(cycleEvents, "system.error") > 0)

\* C31.  update() performs a health check only when at least
\* healthCheckInterval ms have passed since the previous check (since
\* power-on for the first), also when the counter has wrapped in between.
C31_ChecksApart ==
  [][mcheck' = "check" => sinceCheck >= healthCheckInterval]_vars

\* A health check made when the counter has wrapped to 0 since the
\* previous one.
C31_Witness == mcheck = "check" /\ lastHealthCheck = 0

\* C32.  The nutrient solenoid is never open while the air solenoid is
\* closed.
C32_NutrientNeedsAir == nutrientState => airState

\* C33.  While the state is IDLE both solenoid outputs are off.
C33_IdleMeansClosed == state = "IDLE" => (~airState /\ ~nutrientState)

\* C34.  A polling task created by begin() leaves its loop only once
\* stop() has been called: never because of the order in which begin()
\* and the new task run.
C34_LoopsUntilStop == sret.op = "exit" => cpos = "stop"

\* C35.  The bus mutex is held only by a live task that is inside an
\* EventBus operation.
C35_MutexHeldInsideOnly ==
  mutex # None => (mutex \notin killed /\ InCall(mutex))

\* The publish calls of the dispatcher whose event the bus has handed to
\* its subscribers: the actuator handlers of subscribeToActuatorEvents
\* (main.cpp line 167-230) act inside that dispatch.
Dispatched(e) == \E k \in DOMAIN cmdEvents : cmdEvents[k] = e

\* C36.  The dispatcher publishes the status completed for a lights or
\* spray command only after the actuator event of the command has reached
\* the actuator's handler.
C36_CompletedAfterEffect ==
  \A k \in DOMAIN cmdCalls :
    (/\ cmdCalls[k].type = "command.status"
     /\ cmdCalls[k].status = "completed"
     /\ cmd.type \in {"lights", "spray"})
      => \E j \in 1..(k - 1) :
            /\ cmdCalls[j].type # "command.status"
            /\ Dispatched(cmdCalls[j])

\* C37.  After any begin() and reconfigure() calls exactly one handler is
\* subscribed to config.sensors.changed, and one such event runs exactly
\* one reconfiguration.
C37_OneConfigHandler ==
  /\ smCalls > 0 => smHandlers = 1
  /\ smLast.op = "event" => smLast.n = 1

\* C39.  Once begin() has returned, the relay pin is HIGH exactly when
\* isActive() differs from invertLogic, and the relay is inactive when
\* begin() or shutdown() has just returned, whatever activate(),
\* deactivate(), pulse() and shutdown() calls were made.
C39_PinFollowsState ==
  begun =>
    /\ relayPinHigh <=> (currentState # relayInvert)
    /\ rret.op \in {"begin", "shutdown"} =>
         (~currentState /\ relayPinHigh = InactiveLevel(relayInvert))

\* shutdown() has returned for a relay with inverted logic that it found
\* active, in the delay of a pulse.
C39_Witness ==
  /\ begun /\ relayInvert /\ pulsing
  /\ rret.op = "shutdown" /\ rret.wasActive
  /\ relayPinHigh /\ ~currentState

====
